---- MODULE Spec2Model ----
(***************************************************************************)
(* A model of the OPA server (server/server.go, server/grpc-server.go) and *)
(* of the request builder exercised by topdown's TestMakeRequest.          *)
(*                                                                         *)
(* Two specifications share the variables:                                 *)
(*   Spec        - the server: the store, the compiler holder and the      *)
(*                 request handlers, interleaved step by step;             *)
(*   SpecBuilder - the request builder as a pure function applied to       *)
(*                 bounded pair lists.                                     *)
(***************************************************************************)
EXTENDS Integers, Sequences, FiniteSets, TLC

(***************************************************************************)
(* Bounds of the model.                                                    *)
(***************************************************************************)
MaxPairs == 2
MaxRefLen == 2

(***************************************************************************)
(* Values.  A value is a number (standing for every non-object term) or an *)
(* object, a function from a finite set of string keys to values.          *)
(***************************************************************************)
Num(n) == [t |-> "num", n |-> n, f |-> <<>>]
Obj(f) == [t |-> "obj", n |-> 0, f |-> f]
Unset == [t |-> "unset", n |-> 0, f |-> <<>>]
EmptyObj == Obj(<<>>)
IsObject(v) == v.t = "obj"
IsSet(v) == v.t # "unset"
HasKey(v, k) == IsObject(v) /\ k \in DOMAIN v.f
Put(v, k, x) == Obj([j \in (DOMAIN v.f) \cup {k} |-> IF j = k THEN x ELSE v.f[j]])
Del(v, k) == Obj([j \in (DOMAIN v.f) \ {k} |-> v.f[j]])
One(k, x) == Obj([j \in {k} |-> x])

IsPrefix(p, q) == Len(p) <= Len(q) /\ SubSeq(q, 1, Len(p)) = p
Front(p) == SubSeq(p, 1, Len(p) - 1)
Last(p) == p[Len(p)]

RECURSIVE Lookup(_, _)
Lookup(v, p) ==
  IF p = <<>> THEN v
  ELSE IF HasKey(v, Head(p)) THEN Lookup(v.f[Head(p)], Tail(p))
  ELSE Unset

(***************************************************************************)
(* The request builder (topdown.MakeRequest).                              *)
(*                                                                         *)
(* A ref is empty ("the whole request") or the token request followed by   *)
(* its elements; an element that is not a string key is an index element.  *)
(***************************************************************************)
RequestRoot == "request"
Keys == {"a", "b"}

SeqsUpTo(S, n) == UNION {[1..m -> S] : m \in 0..n}
\* request.a[1], the ref of the test case "bad path"
BadRefs == {<<RequestRoot, "a", "[1]">>}
Refs == {<<>>} \cup {<<RequestRoot>> \o s : s \in SeqsUpTo(Keys, MaxRefLen)} \cup BadRefs
PairValues == {Num(1), Num(2), EmptyObj, One("b", Num(1))}
Pairs == [ref : Refs, value : PairValues]
PairLists == SeqsUpTo(Pairs, MaxPairs)

RefKeys(ref) == IF ref = <<>> THEN <<>> ELSE Tail(ref)
ValidPath(ref) == \A i \in 1..Len(RefKeys(ref)) : RefKeys(ref)[i] \in Keys

mkOk(doc) == [ok |-> TRUE, doc |-> doc]
mkConflict == [ok |-> FALSE, doc |-> Unset]

\* Steps 3 and 4 of the builder: descend along keys, creating missing objects,
\* and place value at the end; two objects meeting at a slot merge key by key.
RECURSIVE PlaceAt(_, _, _)
RECURSIVE MergeKeys(_, _, _)
PlaceAt_replace(doc, keys, value) ==
  IF keys = <<>> THEN
    IF ~IsSet(doc) \/ (IsObject(doc) /\ IsObject(value)) THEN mkOk(value) ELSE mkConflict
  ELSE
    IF IsSet(doc) /\ ~IsObject(doc) THEN mkConflict
    ELSE
      LET base == IF IsSet(doc) THEN doc ELSE EmptyObj
          k == Head(keys)
          child == IF HasKey(base, k) THEN base.f[k] ELSE Unset
          r == PlaceAt(child, Tail(keys), value)
      IN IF r.ok THEN mkOk(Put(base, k, r.doc)) ELSE mkConflict
PlaceAt(doc, keys, value) ==
  IF keys = <<>> THEN
    IF ~IsSet(doc) THEN mkOk(value)
    ELSE IF IsObject(doc) /\ IsObject(value) THEN MergeKeys(doc, value, DOMAIN value.f)
    ELSE mkConflict
  ELSE
    IF IsSet(doc) /\ ~IsObject(doc) THEN mkConflict
    ELSE
      LET base == IF IsSet(doc) THEN doc ELSE EmptyObj
          k == Head(keys)
          child == IF HasKey(base, k) THEN base.f[k] ELSE Unset
          r == PlaceAt(child, Tail(keys), value)
      IN IF r.ok THEN mkOk(Put(base, k, r.doc)) ELSE mkConflict
MergeKeys(doc, value, ks) ==
  IF ks = {} THEN mkOk(doc)
  ELSE
    LET k == CHOOSE x \in ks : TRUE
        r == PlaceAt(doc, <<k>>, value.f[k])
    IN IF r.ok THEN MergeKeys(r.doc, value, ks \ {k}) ELSE mkConflict

\* The result of the builder: a document, or an error with the index of the
\* pair that raised it and, for a conflict on a value, the ref the message names.
Built(doc) == [err |-> "none", doc |-> doc, at |-> 0, path |-> <<>>]
Failed(kind, i, path) == [err |-> kind, doc |-> Unset, at |-> i, path |-> path]

ConflictPath_offending(ref) == Front(ref)
ConflictPath(ref) == ref

RECURSIVE BuildFrom(_, _, _)
BuildFrom(pairs, i, doc) ==
  IF i > Len(pairs) THEN Built(doc)
  ELSE
    LET ref == pairs[i].ref
        value == pairs[i].value
        keys == RefKeys(ref)
    IN IF ~ValidPath(ref) THEN Failed("path", i, ref)
       ELSE IF keys = <<>> /\ ~IsObject(value) THEN
         IF IsObject(doc) THEN Failed("conflict_root", i, <<>>)
         ELSE BuildFrom(pairs, i + 1, value)
       ELSE IF IsSet(doc) /\ ~IsObject(doc) THEN Failed("conflict_root", i, <<>>)
       ELSE
         LET r == PlaceAt(doc, keys, value)
         IN IF r.ok THEN BuildFrom(pairs, i + 1, r.doc)
            ELSE IF keys = <<>> THEN Failed("conflict_root", i, <<>>)
            ELSE Failed("conflict", i, ConflictPath(ref))

MakeRequest(pairs) == BuildFrom(pairs, 1, Unset)

(***************************************************************************)
(* Policy modules and the compiler (package ast).                          *)
(*                                                                         *)
(* A module is the set of rules it defines, each a data path with the      *)
(* value it computes, and the set of rule paths it refers to.  A module    *)
(* set compiles iff no two modules define one path with different values   *)
(* and every path referred to is defined by some module of the set.        *)
(***************************************************************************)
Rule(path, val) == [path |-> path, val |-> val]
NoMod == [rules |-> {}, needs |-> {}]
ModAB == [rules |-> {Rule(<<"a", "b">>, 2)}, needs |-> {}]
ModAB2 == [rules |-> {Rule(<<"a", "b">>, 3)}, needs |-> {}]
ModC == [rules |-> {Rule(<<"c">>, 1)}, needs |-> {<<"a", "b">>}]

PolicyIds == {"p", "q"}
PolicyBodies == {"ab", "ab2", "c", "syntax", "empty"}

\* ast.ParseModule: an error, no module at all (a body with no statement), or the module.
ParseModule(id, body) ==
  CASE body = "ab" -> [err |-> FALSE, nil |-> FALSE, mod |-> ModAB]
    [] body = "ab2" -> [err |-> FALSE, nil |-> FALSE, mod |-> ModAB2]
    [] body = "c" -> [err |-> FALSE, nil |-> FALSE, mod |-> ModC]
    [] body = "empty" -> [err |-> FALSE, nil |-> TRUE, mod |-> NoMod]
    [] OTHER -> [err |-> TRUE, nil |-> TRUE, mod |-> NoMod]

\* Module maps (map[string]*ast.Module): functions from a set of ids.
WithModule(mods, id, mod) == [i \in (DOMAIN mods) \cup {id} |-> IF i = id THEN mod ELSE mods[i]]
WithoutModule(mods, id) == [i \in (DOMAIN mods) \ {id} |-> mods[i]]
RulesOf(mods) == UNION {mods[i].rules : i \in DOMAIN mods}

\* Compiler.Compile followed by Compiler.Failed.
CompileFailed(mods) ==
  \/ \E i, j \in DOMAIN mods : \E r1 \in mods[i].rules, r2 \in mods[j].rules :
       i # j /\ r1.path = r2.path /\ r1.val # r2.val
  \/ \E i \in DOMAIN mods : \E n \in mods[i].needs :
       \A r \in RulesOf(mods) : r.path # n

\* Compiler.GetRulesForVirtualDocument: the rules defining a value at or under ref.
GetRulesForVirtualDocument(snap, ref) == {r \in RulesOf(snap) : IsPrefix(ref, r.path)}

(***************************************************************************)
(* The document store (package storage).                                   *)
(***************************************************************************)
AddOp == "add"
RemoveOp == "remove"
ReplaceOp == "replace"

StoreOk(doc) == [err |-> "none", doc |-> doc, path |-> <<>>]
StoreErr(kind, doc, path) == [err |-> kind, doc |-> doc, path |-> path]

\* storage.ParsePath: every segment of a path is non-empty.
ParsePath(path) == \A i \in 1..Len(path) : path[i] # ""

\* Storage.Read
StoreRead(doc, path) ==
  LET v == Lookup(doc, path)
  IN [err |-> IF IsSet(v) THEN "none" ELSE "NotFound", node |-> v]

RECURSIVE SetAt(_, _, _)
SetAt(doc, path, v) ==
  IF path = <<>> THEN v
  ELSE Put(doc, Head(path), SetAt(doc.f[Head(path)], Tail(path), v))

RECURSIVE RemoveAt(_, _)
RemoveAt(doc, path) ==
  IF Len(path) = 1 THEN Del(doc, Head(path))
  ELSE Put(doc, Head(path), RemoveAt(doc.f[Head(path)], Tail(path)))

\* Storage.Write: the parent of the path must be an object; replace and remove
\* need the path to exist; the root document stays an object.
StoreWrite(doc, op, path, value) ==
  IF path = <<>> THEN
    IF op # RemoveOp /\ IsObject(value) THEN StoreOk(value)
    ELSE StoreErr("InvalidPatch", doc, path)
  ELSE
    LET parent == Lookup(doc, Front(path))
    IN IF ~IsObject(parent) THEN StoreErr("NotFound", doc, path)
       ELSE IF op # AddOp /\ ~HasKey(parent, Last(path)) THEN StoreErr("NotFound", doc, path)
       ELSE IF op = RemoveOp THEN StoreOk(RemoveAt(doc, path))
       ELSE StoreOk(SetAt(doc, path, value))

(***************************************************************************)
(* The evaluator (topdown.Query on a data path).                           *)
(*                                                                         *)
(* A path at or under a rule has the rule's value; any other path has the  *)
(* base document at the path with the values of the rules under it.        *)
(***************************************************************************)
RECURSIVE SetDeep(_, _, _)
SetDeep(doc, path, v) ==
  IF path = <<>> THEN v
  ELSE LET base == IF IsObject(doc) THEN doc ELSE EmptyObj
           child == IF HasKey(base, Head(path)) THEN base.f[Head(path)] ELSE Unset
       IN Put(base, Head(path), SetDeep(child, Tail(path), v))

RECURSIVE OverlayRules(_, _, _)
OverlayRules(doc, path, rs) ==
  IF rs = {} THEN doc
  ELSE LET r == CHOOSE x \in rs : TRUE
       IN OverlayRules(SetDeep(doc, SubSeq(r.path, Len(path) + 1, Len(r.path)), Num(r.val)),
                       path, rs \ {r})

QueryValue(snap, doc, path) ==
  LET above == {r \in RulesOf(snap) : IsPrefix(r.path, path)}
      below == {r \in RulesOf(snap) : IsPrefix(path, r.path) /\ r.path # path}
      base == Lookup(doc, path)
  IN IF above # {}
     THEN LET r == CHOOSE x \in above : TRUE
          IN Lookup(Num(r.val), SubSeq(path, Len(r.path) + 1, Len(path)))
     ELSE IF IsSet(base) /\ ~IsObject(base) THEN base
     ELSE OverlayRules(base, path, below)

(***************************************************************************)
(* server.go: errors and the helpers of the handlers.                      *)
(***************************************************************************)
Resp(code, err, shape, body) ==
  [code |-> code, err |-> err, shape |-> shape, body |-> body,
   effect |-> "", obligation |-> <<>>]
NoResp == Resp(0, "", "none", Unset)

\* handleErrorAuto: the status of an error kind.
handleErrorAuto(kind) ==
  CASE kind = "NotFound" -> Resp(404, kind, "error", Unset)
    [] kind = "WriteConflict" -> Resp(404, kind, "error", Unset)
    [] kind = "BadRequest" -> Resp(400, kind, "error", Unset)
    [] kind = "InvalidPatch" -> Resp(400, kind, "error", Unset)
    [] OTHER -> Resp(500, kind, "error", Unset)

\* Server.writeConflict against the snapshot that Server.Compiler returns.
writeConflict_trims(snap, op, path) ==
  LET checked == IF Len(path) > 0 /\ Last(path) = "-" THEN Front(path) ELSE path
  IN IF GetRulesForVirtualDocument(snap, checked) # {}
     THEN StoreErr("WriteConflict", Unset, checked)
     ELSE StoreOk(Unset)
writeConflict(snap, op, path) ==
  LET checked == IF op = AddOp /\ Len(path) > 0 /\ Last(path) = "-" THEN Front(path) ELSE path
  IN IF GetRulesForVirtualDocument(snap, checked) # {}
     THEN StoreErr("WriteConflict", Unset, checked)
     ELSE StoreOk(Unset)

(***************************************************************************)
(* Requests.                                                               *)
(***************************************************************************)
MaxRequests == 2
MaxOps == 2

Procs == {1, 2}
DataPaths == {<<"a">>, <<"a", "b">>}
\* a path with two ancestors below the root, for makeDir
DeepPath == <<"a", "b", "c">>
BadPath == <<"a", "", "b">>
DataValues == {Num(1), EmptyObj, One("b", Num(1))}
ExplainModes == {"off", "full", "truth"}
RequestParams == {"none", "ground", "nonground", "malformed"}
Queries == {"missing", "syntax", "uncompilable", "ok"}

PatchV1(op, path, value) == [op |-> op, path |-> path, value |-> value]
PatchOps == {PatchV1("add", <<"b">>, Num(1)),
             PatchV1("replace", <<"b">>, EmptyObj),
             PatchV1("remove", <<"b">>, Unset),
             PatchV1("move", <<"b">>, Unset),
             PatchV1("add", <<"b", "", "c">>, Num(1))}
\* An op with an unknown operation or an unparseable path ends the planning loop,
\* and the ops after it are never read: lists are enumerated up to such an op.
EndsPlanning(op) == op.op \notin {"add", "remove", "replace"} \/ ~ParsePath(op.path)
PatchLists == {l \in SeqsUpTo(PatchOps, MaxOps) :
                 \A i \in 1..(Len(l) - 1) : ~EndsPlanning(l[i])}

\* What the evaluator computes for a tenant's path data.opa.<customer_id>: nothing,
\* a value that is no object, an object without the key match, or an object whose
\* match maps rule ids to {action_type, action_data, priority}.
Match(type, adata, prio) == [action_type |-> type, action_data |-> adata, priority |-> prio]
NoMatches == [i \in {} |-> Match("", "", 0)]
TenantResult(kind, matches) == [kind |-> kind, matches |-> matches]
TenantResults ==
  {TenantResult("undefined", NoMatches), TenantResult("scalar", NoMatches),
   TenantResult("nomatch", NoMatches), TenantResult("match", NoMatches),
   TenantResult("match", [i \in {"R1"} |-> Match("action_redirect", "http://h", 1)]),
   TenantResult("match", [i \in {"R1", "R2"} |->
                            IF i = "R1" THEN Match("action_allow", "", 1)
                            ELSE Match("action_block", "", 9)]),
   TenantResult("match", [i \in {"R1", "R2"} |->
                            IF i = "R1" THEN Match("action_redirect", "http://h", 0)
                            ELSE Match("action_block", "", -1)]),
   TenantResult("match", [i \in {"R1", "R2"} |->
                            IF i = "R1" THEN Match("action_allow", "", 5)
                            ELSE Match("action_block", "", 5)])}

NoReq == [id |-> "", body |-> "", path |-> <<>>, value |-> Unset, decodes |-> TRUE,
          inm |-> FALSE, ops |-> <<>>, explain |-> "off", params |-> "none", q |-> "ok",
          result |-> TenantResult("undefined", NoMatches)]

Requests(kind) ==
  CASE kind = "policyPut" ->
         {[NoReq EXCEPT !.id = i, !.body = b] : i \in PolicyIds, b \in PolicyBodies}
    [] kind \in {"policyDelete", "policyGet", "policyRawGet"} ->
         {[NoReq EXCEPT !.id = i] : i \in PolicyIds}
    [] kind = "dataPut" ->
         {[NoReq EXCEPT !.path = pa, !.value = v, !.inm = m] :
            pa \in DataPaths \cup {BadPath}, v \in DataValues, m \in BOOLEAN}
         \cup {[NoReq EXCEPT !.path = <<"a">>, !.decodes = FALSE]}
         \cup {[NoReq EXCEPT !.path = DeepPath, !.value = Num(1)]}
    [] kind = "dataPatch" ->
         {[NoReq EXCEPT !.path = <<"a">>, !.ops = o] : o \in PatchLists}
         \cup {[NoReq EXCEPT !.path = <<"a">>, !.decodes = FALSE]}
    [] kind = "dataGet" ->
         {[NoReq EXCEPT !.path = pa, !.explain = e, !.params = pr] :
            pa \in DataPaths, e \in ExplainModes, pr \in RequestParams}
    [] kind \in {"queryGet", "indexGet"} ->
         {[NoReq EXCEPT !.q = q, !.explain = e] : q \in Queries, e \in ExplainModes}
    [] kind = "validate" ->
         {[NoReq EXCEPT !.params = pr, !.result = r] :
            pr \in {"ground", "nonground", "malformed"}, r \in TenantResults}
    [] OTHER -> {NoReq}

AllKinds == {"policyPut", "policyDelete", "policyGet", "policyRawGet", "policyList",
             "dataPut", "dataPatch", "dataGet", "queryGet", "indexGet", "validate"}
Mutations == {"policyPut", "policyDelete"}
\* Handler 1 serves any request; handler 2 serves the policy mutations that run
\* concurrently with it.
Kinds(p) == IF p = 1 THEN AllKinds ELSE Mutations

\* parseRequest: the error and the non-ground flag it returns.
parseRequest(params) == [err |-> params = "malformed", nonGround |-> params = "nonground"]
\* parseInput, its counterpart for the attributes of an RPC request
parseInput(params) == parseRequest(params)

(***************************************************************************)
(* State.                                                                  *)
(***************************************************************************)
VARIABLES
  boot,      \* New: the server's construction and the transaction it opened
  policies,  \* the store's policy modules, by id
  data,      \* the store's root document
  compiler,  \* Server.compiler, the current snapshot (its Modules)
  h,         \* the request handlers in progress, one per task
  started,   \* the number of requests served so far
  lastPut,   \* the last PUT /v1/data that returned 204 with no store change or publish since
  bPairs, bResult, bPc,  \* the request builder's input, result and position
  mtx,       \* Server.mtx: the task holding the write lock (0: none) and the read locks held
  lk,        \* the callers of setCompiler and Compiler inside the lock, one per task
  pubs,      \* the snapshots whose assignment to Server.compiler has completed, in order
  influx,    \* an assignment to Server.compiler is in progress
  eErr, ePrev, eCurr, ePc, eOut, \* handleErrorAuto: err, prev, curr, position, statuses written
  qSols, qIdx, qSet, qErr, qPc,  \* execQuery: the evaluator's solutions, the one at hand,
                                 \* resultSet, the error returned, position
  planSnap, planRoot, planOps,   \* prepareV1PatchSlice: the snapshot, root, ops,
  planIdx, planResult, planErr,  \* the op at hand, result, err
  rItems, rIdx, rPairs,          \* parseRequest: s, i, pairs,
  rNonGround, rErr, rPc, rOut    \* nonGround, err, position; the answer of v1DataGet

svars == <<boot, policies, data, compiler, h, started, lastPut>>
bvars == <<bPairs, bResult, bPc>>
lvars == <<mtx, lk, pubs, influx>>
evars == <<eErr, ePrev, eCurr, ePc, eOut>>
qvars == <<qSols, qIdx, qSet, qErr, qPc>>
pvars == <<planSnap, planRoot, planOps, planIdx, planResult, planErr>>
rvars == <<rItems, rIdx, rPairs, rNonGround, rErr, rPc, rOut>>
vars == <<boot, policies, data, compiler, h, started, lastPut, bPairs, bResult, bPc,
          mtx, lk, pubs, influx, eErr, ePrev, eCurr, ePc, eOut,
          qSols, qIdx, qSet, qErr, qPc,
          planSnap, planRoot, planOps, planIdx, planResult, planErr,
          rItems, rIdx, rPairs, rNonGround, rErr, rPc, rOut>>

EmptyMods == [i \in {} |-> NoMod]
NoPut == [set |-> FALSE, path |-> <<>>, value |-> Unset]
IdleProc == [kind |-> "idle", pc |-> "idle", req |-> NoReq, txn |-> "none", closes |-> 0,
             parsedMod |-> NoMod, c |-> EmptyMods, stored |-> FALSE,
             hasSnap |-> FALSE, snap |-> EmptyMods, mixed |-> FALSE,
             idx |-> 0, patches |-> <<>>, wrote |-> FALSE, putSeen |-> NoPut,
             module |-> NoMod, resp |-> NoResp]

InitPolicies == {EmptyMods, [i \in {"p"} |-> ModAB],
                 [i \in {"p", "q"} |-> IF i = "p" THEN ModAB ELSE ModAB2]}
InitData == {EmptyObj, One("a", EmptyObj), One("a", One("b", Num(1)))}

ServerIdle ==
  /\ boot = [state |-> "none", txn |-> "none", closes |-> 0]
  /\ policies = EmptyMods
  /\ data = EmptyObj
  /\ compiler = EmptyMods
  /\ h = [p \in Procs |-> IdleProc]
  /\ started = 0
  /\ lastPut = NoPut

BuilderIdle ==
  /\ bPairs = <<>>
  /\ bResult = Built(Unset)
  /\ bPc = "built"

\* The tasks that call setCompiler and those that call Compiler, and the
\* snapshots handed to setCompiler.
MaxPublishes == 2
MaxReads == 2
Writers == {1, 2}
Readers == {3, 4}
Snapshots == {[i \in {"p"} |-> ModAB], [i \in {"p"} |-> ModAB2]}
NoRead == [set |-> FALSE, torn |-> FALSE, snap |-> EmptyMods]
IdleLock == [pc |-> "idle", c |-> EmptyMods, reads |-> 0, got |-> NoRead]

HolderIdle ==
  /\ mtx = [w |-> 0, r |-> 0]
  /\ lk = [t \in Writers \cup Readers |-> IdleLock]
  /\ pubs = <<>>
  /\ influx = FALSE

\* No call of handleErrorAuto on its own.
ErrorsIdle ==
  /\ eErr = <<>>
  /\ ePrev = 0
  /\ eCurr = 0
  /\ ePc = "idle"
  /\ eOut = <<>>

\* No call of execQuery on its own.
QueryIdle ==
  /\ qSols = <<>>
  /\ qIdx = 0
  /\ qSet = <<>>
  /\ qErr = FALSE
  /\ qPc = "idle"

\* No call of prepareV1PatchSlice on its own.
NoErr == [kind |-> "none", path |-> <<>>]
PlanIdle ==
  /\ planSnap = EmptyMods
  /\ planRoot = <<>>
  /\ planOps = <<>>
  /\ planIdx = 0
  /\ planResult = <<>>
  /\ planErr = NoErr

\* No call of parseRequest on its own.
ParseIdle ==
  /\ rItems = <<>>
  /\ rIdx = 0
  /\ rPairs = <<>>
  /\ rNonGround = FALSE
  /\ rErr = "none"
  /\ rPc = "idle"
  /\ rOut = NoResp

Init ==
  /\ ErrorsIdle
  /\ QueryIdle
  /\ PlanIdle
  /\ ParseIdle
  /\ boot = [state |-> "none", txn |-> "none", closes |-> 0]
  /\ policies \in InitPolicies
  /\ data \in InitData
  /\ compiler = EmptyMods
  /\ h = [p \in Procs |-> IdleProc]
  /\ started = 0
  /\ lastPut = NoPut
  /\ BuilderIdle
  /\ HolderIdle

(***************************************************************************)
(* Transactions and snapshots of a handler.                                *)
(***************************************************************************)
\* Storage.NewTransaction succeeded
OpenTxn(rec) == [rec EXCEPT !.txn = "open"]
\* Storage.Close
CloseTxn(rec) == [rec EXCEPT !.txn = "closed", !.closes = @ + 1]
\* defer s.store.Close(ctx, txn), installed once NewTransaction has succeeded
Deferred_missing(rec) == rec
Deferred(rec) == IF rec.txn = "open" THEN CloseTxn(rec) ELSE rec
\* the handler has written its response and its locals are gone
Finish(rec, resp) ==
  [IdleProc EXCEPT !.kind = rec.kind, !.pc = "done", !.txn = rec.txn,
                   !.closes = rec.closes, !.stored = rec.stored, !.mixed = rec.mixed,
                   !.wrote = rec.wrote, !.module = rec.module, !.resp = resp]
Return(rec, resp) == Finish(Deferred(rec), resp)

\* Server.Compiler: the handler reads the current snapshot; mixed records that
\* it has read two different ones.
UseSnap(rec, cur) ==
  IF rec.hasSnap THEN [rec EXCEPT !.mixed = @ \/ (cur # rec.snap)]
  ELSE [rec EXCEPT !.hasSnap = TRUE, !.snap = cur]

\* Server.setCompiler
setCompiler(c) == compiler' = c

At(p, kind, pc) == h[p].kind = kind /\ h[p].pc = pc
Step(p, rec) == h' = [h EXCEPT ![p] = rec]

(***************************************************************************)
(* New: the compiler is initialized with the policies found in storage.    *)
(***************************************************************************)
New ==
  /\ boot.state = "none"
  /\ \E fail \in BOOLEAN :
       IF fail THEN
         /\ boot' = [boot EXCEPT !.state = "failed"]
         /\ UNCHANGED compiler
       ELSE IF CompileFailed(policies) THEN
         /\ boot' = [state |-> "failed", txn |-> "closed", closes |-> boot.closes + 1]
         /\ UNCHANGED compiler
       ELSE
         /\ setCompiler(policies)
         /\ boot' = [state |-> "up", txn |-> "closed", closes |-> boot.closes + 1]
  /\ UNCHANGED <<policies, data, h, started, lastPut, bvars, lvars, evars, qvars, pvars, rvars>>

Start(p) ==
  /\ boot.state = "up"
  /\ h[p].pc \in {"idle", "done"}
  /\ started < MaxRequests
  /\ \E kind \in Kinds(p) : \E r \in Requests(kind) :
       Step(p, [IdleProc EXCEPT !.kind = kind, !.pc = "begin", !.req = r])
  /\ started' = started + 1
  /\ UNCHANGED <<boot, policies, data, compiler, lastPut, bvars, lvars, evars, qvars, pvars, rvars>>

(***************************************************************************)
(* PUT /v1/policies/{id}                                                   *)
(***************************************************************************)
v1PoliciesPutBegin(p) ==
  /\ At(p, "policyPut", "begin")
  /\ LET rec == h[p]
         parsed == ParseModule(rec.req.id, rec.req.body)
     IN IF parsed.err THEN Step(p, Return(rec, Resp(400, "parse", "error", Unset)))
        ELSE IF parsed.nil THEN Step(p, Return(rec, Resp(400, "empty", "error", Unset)))
        ELSE \E fail \in BOOLEAN :
               IF fail THEN Step(p, Return(rec, handleErrorAuto("Internal")))
               ELSE Step(p, [OpenTxn(rec) EXCEPT !.parsedMod = parsed.mod, !.pc = "compile"])
  /\ UNCHANGED <<boot, policies, data, compiler, started, lastPut, bvars, lvars, evars, qvars, pvars, rvars>>

v1PoliciesPutCompile_publishes(p) ==
  /\ At(p, "policyPut", "compile")
  /\ LET rec == h[p]
         mods == WithModule(policies, rec.req.id, rec.parsedMod)
     IN IF CompileFailed(mods)
        THEN /\ Step(p, Return(rec, Resp(400, "compile", "error", Unset)))
             /\ UNCHANGED compiler
        ELSE /\ Step(p, [rec EXCEPT !.c = mods, !.pc = "insert"])
             /\ setCompiler(mods)
  /\ UNCHANGED <<boot, policies, data, started, lastPut, bvars, lvars, evars, qvars, pvars, rvars>>

v1PoliciesPutCompile(p) ==
  /\ At(p, "policyPut", "compile")
  /\ LET rec == h[p]
         mods == WithModule(policies, rec.req.id, rec.parsedMod)
     IN IF CompileFailed(mods) THEN Step(p, Return(rec, Resp(400, "compile", "error", Unset)))
        ELSE Step(p, [rec EXCEPT !.c = mods, !.pc = "insert"])
  /\ UNCHANGED <<boot, policies, data, compiler, started, lastPut, bvars, lvars, evars, qvars, pvars, rvars>>

v1PoliciesPutInsert(p) ==
  /\ At(p, "policyPut", "insert")
  /\ LET rec == h[p]
     IN \E fail \in BOOLEAN :
          IF fail THEN
            /\ Step(p, Return(rec, handleErrorAuto("Internal")))
            /\ UNCHANGED <<policies, lastPut>>
          ELSE
            /\ policies' = WithModule(policies, rec.req.id, rec.parsedMod)
            /\ lastPut' = NoPut
            /\ Step(p, [rec EXCEPT !.stored = TRUE, !.pc = "publish"])
  /\ UNCHANGED <<boot, data, compiler, started, bvars, lvars, evars, qvars, pvars, rvars>>

v1PoliciesPutPublish(p) ==
  /\ At(p, "policyPut", "publish")
  /\ LET rec == h[p]
     IN /\ setCompiler(rec.c)
        /\ Step(p, Return([rec EXCEPT !.module = rec.c[rec.req.id]],
                          Resp(200, "", "policy", Unset)))
  /\ lastPut' = NoPut
  /\ UNCHANGED <<boot, policies, data, started, bvars, lvars, evars, qvars, pvars, rvars>>

(***************************************************************************)
(* DELETE /v1/policies/{id}                                                *)
(***************************************************************************)
v1PoliciesDeleteBegin(p) ==
  /\ At(p, "policyDelete", "begin")
  /\ LET rec == h[p]
     IN \E fail \in BOOLEAN :
          IF fail THEN Step(p, Return(rec, handleErrorAuto("Internal")))
          ELSE IF rec.req.id \notin DOMAIN policies
          THEN Step(p, Return(OpenTxn(rec), handleErrorAuto("NotFound")))
          ELSE Step(p, [OpenTxn(rec) EXCEPT !.pc = "compile"])
  /\ UNCHANGED <<boot, policies, data, compiler, started, lastPut, bvars, lvars, evars, qvars, pvars, rvars>>

v1PoliciesDeleteCompile(p) ==
  /\ At(p, "policyDelete", "compile")
  /\ LET rec == h[p]
         mods == WithoutModule(policies, rec.req.id)
     IN IF CompileFailed(mods) THEN Step(p, Return(rec, Resp(400, "compile", "error", Unset)))
        ELSE Step(p, [rec EXCEPT !.c = mods, !.pc = "delete"])
  /\ UNCHANGED <<boot, policies, data, compiler, started, lastPut, bvars, lvars, evars, qvars, pvars, rvars>>

v1PoliciesDeleteDelete(p) ==
  /\ At(p, "policyDelete", "delete")
  /\ LET rec == h[p]
     IN \E fail \in BOOLEAN :
          IF fail THEN
            /\ Step(p, Return(rec, handleErrorAuto("Internal")))
            /\ UNCHANGED <<policies, lastPut>>
          ELSE IF rec.req.id \notin DOMAIN policies THEN
            /\ Step(p, Return(rec, handleErrorAuto("NotFound")))
            /\ UNCHANGED <<policies, lastPut>>
          ELSE
            /\ policies' = WithoutModule(policies, rec.req.id)
            /\ lastPut' = NoPut
            /\ Step(p, [rec EXCEPT !.stored = TRUE, !.pc = "publish"])
  /\ UNCHANGED <<boot, data, compiler, started, bvars, lvars, evars, qvars, pvars, rvars>>

v1PoliciesDeletePublish(p) ==
  /\ At(p, "policyDelete", "publish")
  /\ setCompiler(h[p].c)
  /\ Step(p, Return(h[p], Resp(204, "", "none", Unset)))
  /\ lastPut' = NoPut
  /\ UNCHANGED <<boot, policies, data, started, bvars, lvars, evars, qvars, pvars, rvars>>

(***************************************************************************)
(* GET /v1/policies/{id}, GET /v1/policies/{id}/raw, GET /v1/policies      *)
(***************************************************************************)
v1PoliciesGetBegin(p) ==
  /\ At(p, "policyGet", "begin")
  /\ LET rec == h[p]
     IN \E fail \in BOOLEAN :
          IF fail THEN Step(p, Return(rec, handleErrorAuto("Internal")))
          ELSE IF rec.req.id \notin DOMAIN policies
          THEN Step(p, Return(OpenTxn(rec), handleErrorAuto("NotFound")))
          ELSE Step(p, [OpenTxn(rec) EXCEPT !.pc = "respond"])
  /\ UNCHANGED <<boot, policies, data, compiler, started, lastPut, bvars, lvars, evars, qvars, pvars, rvars>>

v1PoliciesGetRespond(p) ==
  /\ At(p, "policyGet", "respond")
  /\ LET rec == UseSnap(h[p], compiler)
         id == rec.req.id
         found == id \in DOMAIN rec.snap
     IN Step(p, Return([rec EXCEPT !.module = IF found THEN rec.snap[id] ELSE NoMod],
                       Resp(200, "", IF found THEN "policy" ELSE "nilpolicy", Unset)))
  /\ UNCHANGED <<boot, policies, data, compiler, started, lastPut, bvars, lvars, evars, qvars, pvars, rvars>>

v1PoliciesRawGet(p) ==
  /\ At(p, "policyRawGet", "begin")
  /\ LET rec == h[p]
     IN \E fail \in BOOLEAN :
          IF fail THEN Step(p, Return(rec, handleErrorAuto("Internal")))
          ELSE IF rec.req.id \notin DOMAIN policies
          THEN Step(p, Return(OpenTxn(rec), handleErrorAuto("NotFound")))
          ELSE Step(p, Return(OpenTxn(rec), Resp(200, "", "raw", Unset)))
  /\ UNCHANGED <<boot, policies, data, compiler, started, lastPut, bvars, lvars, evars, qvars, pvars, rvars>>

v1PoliciesList(p) ==
  /\ At(p, "policyList", "begin")
  /\ Step(p, Return(UseSnap(h[p], compiler), Resp(200, "", "policies", Unset)))
  /\ UNCHANGED <<boot, policies, data, compiler, started, lastPut, bvars, lvars, evars, qvars, pvars, rvars>>

(***************************************************************************)
(* PUT /v1/data/{path}                                                     *)
(***************************************************************************)
v1DataPutBegin_overwrites(p) ==
  /\ At(p, "dataPut", "begin")
  /\ LET rec == h[p]
         path == rec.req.path
     IN IF ~rec.req.decodes THEN Step(p, Return(rec, Resp(400, "decode", "error", Unset)))
        ELSE \E fail \in {"none", "txn", "read"} :
          IF fail = "txn" THEN Step(p, Return(rec, handleErrorAuto("Internal")))
          ELSE IF ~ParsePath(path)
          THEN Step(p, Return(OpenTxn(rec), Resp(400, "bad path format", "error", Unset)))
          ELSE IF fail = "read" THEN Step(p, Return(OpenTxn(rec), handleErrorAuto("Internal")))
          ELSE IF StoreRead(data, path).err # "none"
          THEN Step(p, [OpenTxn(rec) EXCEPT !.pc = "makeDir"])
          ELSE Step(p, [OpenTxn(rec) EXCEPT !.pc = "write"])
  /\ UNCHANGED <<boot, policies, data, compiler, started, lastPut, bvars, lvars, evars, qvars, pvars, rvars>>

v1DataPutBegin(p) ==
  /\ At(p, "dataPut", "begin")
  /\ LET rec == h[p]
         path == rec.req.path
     IN IF ~rec.req.decodes THEN Step(p, Return(rec, Resp(400, "decode", "error", Unset)))
        ELSE \E fail \in {"none", "txn", "read"} :
          IF fail = "txn" THEN Step(p, Return(rec, handleErrorAuto("Internal")))
          ELSE IF ~ParsePath(path)
          THEN Step(p, Return(OpenTxn(rec), Resp(400, "bad path format", "error", Unset)))
          ELSE IF fail = "read" THEN Step(p, Return(OpenTxn(rec), handleErrorAuto("Internal")))
          ELSE IF StoreRead(data, path).err # "none"
          THEN Step(p, [OpenTxn(rec) EXCEPT !.pc = "makeDir"])
          ELSE IF rec.req.inm THEN Step(p, Return(OpenTxn(rec), Resp(304, "", "none", Unset)))
          ELSE Step(p, [OpenTxn(rec) EXCEPT !.pc = "write"])
  /\ UNCHANGED <<boot, policies, data, compiler, started, lastPut, bvars, lvars, evars, qvars, pvars, rvars>>

\* makeDir: the longest prefix of path at which the store holds a document.
RECURSIVE NearestExisting(_, _)
NearestExisting(doc, path) ==
  IF StoreRead(doc, path).err = "none" THEN Len(path) ELSE NearestExisting(doc, Front(path))

\* One level of Server.makeDir on the parent of P.  The first step reads the
\* ancestors of P up to the nearest one that exists; each step then makes the
\* outermost missing ancestor an empty object, after a writeConflict against
\* the snapshot Server.Compiler returns at that moment.  idx is the length of
\* the ancestor to make next.
v1DataPutMakeDir(p) ==
  /\ At(p, "dataPut", "makeDir")
  /\ LET rec == h[p]
         parent == Front(rec.req.path)
         k == IF rec.idx = 0 THEN NearestExisting(data, parent) ELSE rec.idx - 1
         anc == SubSeq(parent, 1, k + 1)
         rec2 == UseSnap(rec, compiler)
     IN IF rec.idx = 0 /\ ~IsObject(Lookup(data, SubSeq(parent, 1, k)))
        THEN /\ Step(p, Return(rec, handleErrorAuto("WriteConflict")))
             /\ UNCHANGED <<data, lastPut>>
        ELSE IF k = Len(parent)
        THEN /\ Step(p, [rec EXCEPT !.pc = "write", !.idx = Len(rec.req.path)])
             /\ UNCHANGED <<data, lastPut>>
        ELSE IF writeConflict(compiler, AddOp, anc).err # "none"
        THEN /\ Step(p, Return(rec2, handleErrorAuto("WriteConflict")))
             /\ UNCHANGED <<data, lastPut>>
        ELSE /\ data' = StoreWrite(data, AddOp, anc, EmptyObj).doc
             /\ lastPut' = NoPut
             /\ IF k + 1 = Len(parent)
                THEN Step(p, [rec2 EXCEPT !.wrote = TRUE, !.pc = "write",
                                          !.idx = Len(rec.req.path)])
                ELSE Step(p, [rec2 EXCEPT !.wrote = TRUE, !.idx = k + 2])
  /\ UNCHANGED <<boot, policies, compiler, started, bvars, lvars, evars, qvars, pvars, rvars>>

v1DataPutWrite(p) ==
  /\ At(p, "dataPut", "write")
  /\ LET rec == h[p]
         w == StoreWrite(data, AddOp, rec.req.path, rec.req.value)
     IN \E fail \in BOOLEAN :
          IF fail THEN
            /\ Step(p, Return(rec, handleErrorAuto("Internal")))
            /\ UNCHANGED <<data, lastPut>>
          ELSE IF w.err # "none" THEN
            /\ Step(p, Return(rec, handleErrorAuto(w.err)))
            /\ UNCHANGED <<data, lastPut>>
          ELSE
            /\ data' = w.doc
            /\ lastPut' = [set |-> TRUE, path |-> rec.req.path, value |-> rec.req.value]
            /\ Step(p, Return([rec EXCEPT !.wrote = TRUE], Resp(204, "", "none", Unset)))
  /\ UNCHANGED <<boot, policies, compiler, started, bvars, lvars, evars, qvars, pvars, rvars>>

(***************************************************************************)
(* PATCH /v1/data/{path}                                                   *)
(***************************************************************************)
PatchImpl(op, path, value) == [op |-> op, path |-> path, value |-> value]

v1DataPatchBegin(p) ==
  /\ At(p, "dataPatch", "begin")
  /\ LET rec == h[p]
     IN IF ~rec.req.decodes THEN Step(p, Return(rec, Resp(400, "decode", "error", Unset)))
        ELSE \E fail \in BOOLEAN :
          IF fail THEN Step(p, Return(rec, handleErrorAuto("Internal")))
          ELSE IF rec.req.ops = <<>>
          THEN Step(p, Return(OpenTxn(rec), Resp(204, "", "none", Unset)))
          ELSE Step(p, [OpenTxn(rec) EXCEPT !.pc = "prepare", !.idx = 1])
  /\ UNCHANGED <<boot, policies, data, compiler, started, lastPut, bvars, lvars, evars, qvars, pvars, rvars>>

prepareV1PatchSlice_applies(p) ==
  /\ At(p, "dataPatch", "prepare")
  /\ LET rec == h[p]
         op == rec.req.ops[rec.idx]
         path == rec.req.path \o op.path
         last == rec.idx = Len(rec.req.ops)
         w == StoreWrite(data, op.op, path, op.value)
     IN IF op.op \notin {"add", "remove", "replace"}
        THEN Step(p, Return(rec, handleErrorAuto("BadRequest"))) /\ UNCHANGED <<data, lastPut>>
        ELSE IF ~ParsePath(path)
        THEN Step(p, Return(rec, handleErrorAuto("BadRequest"))) /\ UNCHANGED <<data, lastPut>>
        ELSE LET rec2 == UseSnap(rec, compiler)
             IN IF writeConflict(compiler, op.op, path).err # "none"
                THEN /\ Step(p, Return(rec2, handleErrorAuto("WriteConflict")))
                     /\ UNCHANGED <<data, lastPut>>
                ELSE IF w.err # "none"
                THEN /\ Step(p, Return(rec2, handleErrorAuto(w.err)))
                     /\ UNCHANGED <<data, lastPut>>
                ELSE /\ data' = w.doc
                     /\ lastPut' = NoPut
                     /\ IF last
                        THEN Step(p, Return([rec2 EXCEPT !.wrote = TRUE],
                                            Resp(204, "", "none", Unset)))
                        ELSE Step(p, [rec2 EXCEPT !.wrote = TRUE, !.idx = @ + 1])
  /\ UNCHANGED <<boot, policies, compiler, started, bvars, lvars, evars, qvars, pvars, rvars>>

\* One iteration of prepareV1PatchSlice.
prepareV1PatchSlice(p) ==
  /\ At(p, "dataPatch", "prepare")
  /\ LET rec == h[p]
         op == rec.req.ops[rec.idx]
         path == rec.req.path \o op.path
         last == rec.idx = Len(rec.req.ops)
     IN IF op.op \notin {"add", "remove", "replace"}
        THEN Step(p, Return(rec, handleErrorAuto("BadRequest")))
        ELSE IF ~ParsePath(path) THEN Step(p, Return(rec, handleErrorAuto("BadRequest")))
        ELSE LET rec2 == UseSnap(rec, compiler)
             IN IF writeConflict(compiler, op.op, path).err # "none"
                THEN Step(p, Return(rec2, handleErrorAuto("WriteConflict")))
                ELSE Step(p, [rec2 EXCEPT
                                !.patches = Append(@, PatchImpl(op.op, path, op.value)),
                                !.idx = IF last THEN 1 ELSE @ + 1,
                                !.pc = IF last THEN "apply" ELSE "prepare"])
  /\ UNCHANGED <<boot, policies, data, compiler, started, lastPut, bvars, lvars, evars, qvars, pvars, rvars>>

\* One iteration of the write loop of v1DataPatch.
v1DataPatchApply(p) ==
  /\ At(p, "dataPatch", "apply")
  /\ LET rec == h[p]
         patch == rec.patches[rec.idx]
         w == StoreWrite(data, patch.op, patch.path, patch.value)
         last == rec.idx = Len(rec.patches)
     IN \E fail \in BOOLEAN :
          IF fail THEN
            /\ Step(p, Return(rec, handleErrorAuto("Internal")))
            /\ UNCHANGED <<data, lastPut>>
          ELSE IF w.err # "none" THEN
            /\ Step(p, Return(rec, handleErrorAuto(w.err)))
            /\ UNCHANGED <<data, lastPut>>
          ELSE
            /\ data' = w.doc
            /\ lastPut' = NoPut
            /\ IF last THEN Step(p, Return([rec EXCEPT !.wrote = TRUE], Resp(204, "", "none", Unset)))
               ELSE Step(p, [rec EXCEPT !.wrote = TRUE, !.idx = @ + 1])
  /\ UNCHANGED <<boot, policies, compiler, started, bvars, lvars, evars, qvars, pvars, rvars>>

(***************************************************************************)
(* GET /v1/data/{path}                                                     *)
(***************************************************************************)
v1DataGetBegin_opens(p) ==
  /\ At(p, "dataGet", "begin")
  /\ LET rec == h[p]
         parsed == parseRequest(rec.req.params)
     IN IF parsed.err THEN Step(p, Return(rec, Resp(400, "request", "error", Unset)))
        ELSE \E fail \in BOOLEAN :
          IF fail THEN Step(p, Return(rec, handleErrorAuto("Internal")))
          ELSE IF parsed.nonGround /\ rec.req.explain # "off"
          THEN Step(p, Return(UseSnap(OpenTxn(rec), compiler), Resp(400, "explain", "error", Unset)))
          ELSE Step(p, [UseSnap(OpenTxn(rec), compiler) EXCEPT !.pc = "query", !.putSeen = lastPut])
  /\ UNCHANGED <<boot, policies, data, compiler, started, lastPut, bvars, lvars, evars, qvars, pvars, rvars>>

v1DataGetBegin(p) ==
  /\ At(p, "dataGet", "begin")
  /\ LET rec == h[p]
         parsed == parseRequest(rec.req.params)
     IN IF parsed.err THEN Step(p, Return(rec, Resp(400, "request", "error", Unset)))
        ELSE IF parsed.nonGround /\ rec.req.explain # "off"
        THEN Step(p, Return(rec, Resp(400, "explain", "error", Unset)))
        ELSE \E fail \in BOOLEAN :
          IF fail THEN Step(p, Return(rec, handleErrorAuto("Internal")))
          ELSE Step(p, [UseSnap(OpenTxn(rec), compiler) EXCEPT !.pc = "query", !.putSeen = lastPut])
  /\ UNCHANGED <<boot, policies, data, compiler, started, lastPut, bvars, lvars, evars, qvars, pvars, rvars>>

v1DataGetQuery_found(p) ==
  /\ At(p, "dataGet", "query")
  /\ LET rec == h[p]
         nonGround == parseRequest(rec.req.params).nonGround
         mode == rec.req.explain
         result == QueryValue(rec.snap, data, rec.req.path)
     IN \E fail \in {"none", "query", "truth"} :
          IF fail = "query" THEN Step(p, Return(rec, handleErrorAuto("Internal")))
          ELSE IF nonGround THEN Step(p, Return(rec, Resp(200, "", "resultset", result)))
          ELSE IF mode = "off" THEN Step(p, Return(rec, Resp(200, "", "value", result)))
          ELSE IF mode = "full" THEN Step(p, Return(rec, Resp(200, "", "trace", Unset)))
          ELSE IF fail = "truth" THEN Step(p, Return(rec, handleErrorAuto("Internal")))
          ELSE Step(p, Return(rec, Resp(200, "", "trace", Unset)))
  /\ UNCHANGED <<boot, policies, data, compiler, started, lastPut, bvars, lvars, evars, qvars, pvars, rvars>>

v1DataGetQuery(p) ==
  /\ At(p, "dataGet", "query")
  /\ LET rec == h[p]
         nonGround == parseRequest(rec.req.params).nonGround
         mode == rec.req.explain
         result == QueryValue(rec.snap, data, rec.req.path)
     IN \E fail \in {"none", "query", "truth"} :
          IF fail = "query" THEN Step(p, Return(rec, handleErrorAuto("Internal")))
          ELSE IF ~IsSet(result) THEN
            IF mode = "full" THEN Step(p, Return(rec, Resp(404, "", "trace", Unset)))
            ELSE Step(p, Return(rec, Resp(404, "", "none", Unset)))
          ELSE IF nonGround THEN Step(p, Return(rec, Resp(200, "", "resultset", result)))
          ELSE IF mode = "off" THEN Step(p, Return(rec, Resp(200, "", "value", result)))
          ELSE IF mode = "full" THEN Step(p, Return(rec, Resp(200, "", "trace", Unset)))
          ELSE IF fail = "truth" THEN Step(p, Return(rec, handleErrorAuto("Internal")))
          ELSE Step(p, Return(rec, Resp(200, "", "trace", Unset)))
  /\ UNCHANGED <<boot, policies, data, compiler, started, lastPut, bvars, lvars, evars, qvars, pvars, rvars>>

(***************************************************************************)
(* GET /v1/query and GET /                                                 *)
(***************************************************************************)
\* Server.execQuery: topdown.New is given s.Compiler(), not the compiler argument.
execQuery(rec, cur, fail) ==
  LET rec2 == UseSnap(rec, cur)
  IN IF fail = "query" THEN [rec |-> rec2, err |-> "Internal"]
     ELSE IF rec.req.explain = "truth" /\ fail = "truth" THEN [rec |-> rec2, err |-> "Internal"]
     ELSE [rec |-> rec2, err |-> "none"]

v1QueryGetBegin(p) ==
  /\ At(p, "queryGet", "begin")
  /\ LET rec == h[p]
         q == rec.req.q
     IN IF q = "missing" THEN Step(p, Return(rec, Resp(400, "missing q", "error", Unset)))
        ELSE \E fail \in BOOLEAN :
          IF fail THEN Step(p, Return(rec, handleErrorAuto("Internal")))
          ELSE LET rec2 == UseSnap(OpenTxn(rec), compiler)
               IN IF q \in {"syntax", "uncompilable"}
                  THEN Step(p, Return(rec2, Resp(400, "compile", "error", Unset)))
                  ELSE Step(p, [rec2 EXCEPT !.pc = "exec"])
  /\ UNCHANGED <<boot, policies, data, compiler, started, lastPut, bvars, lvars, evars, qvars, pvars, rvars>>

v1QueryGetExec(p) ==
  /\ At(p, "queryGet", "exec")
  /\ \E fail \in {"none", "query", "truth"} :
       LET r == execQuery(h[p], compiler, fail)
       IN IF r.err # "none" THEN Step(p, Return(r.rec, handleErrorAuto(r.err)))
          ELSE Step(p, Return(r.rec, Resp(200, "", IF r.rec.req.explain = "off"
                                                    THEN "resultset" ELSE "trace", Unset)))
  /\ UNCHANGED <<boot, policies, data, compiler, started, lastPut, bvars, lvars, evars, qvars, pvars, rvars>>

indexGetBegin(p) ==
  /\ At(p, "indexGet", "begin")
  /\ LET rec == h[p]
         q == rec.req.q
     IN IF q = "missing" THEN Step(p, Finish(rec, Resp(200, "", "html", Unset)))
        ELSE \E fail \in BOOLEAN :
          IF fail THEN Step(p, Finish(rec, Resp(200, "Internal", "html", Unset)))
          ELSE IF q = "syntax"
          THEN Step(p, Finish(CloseTxn(OpenTxn(rec)), Resp(200, "parse", "html", Unset)))
          ELSE LET rec2 == UseSnap(OpenTxn(rec), compiler)
               IN IF q = "uncompilable"
                  THEN Step(p, Finish(CloseTxn(rec2), Resp(200, "compile", "html", Unset)))
                  ELSE Step(p, [rec2 EXCEPT !.pc = "exec"])
  /\ UNCHANGED <<boot, policies, data, compiler, started, lastPut, bvars, lvars, evars, qvars, pvars, rvars>>

indexGetExec(p) ==
  /\ At(p, "indexGet", "exec")
  /\ \E fail \in {"none", "query", "truth"} :
       LET r == execQuery(h[p], compiler, fail)
       IN Step(p, Finish(CloseTxn(r.rec), Resp(200, r.err, "html", Unset)))
  /\ UNCHANGED <<boot, policies, data, compiler, started, lastPut, bvars, lvars, evars, qvars, pvars, rvars>>

(***************************************************************************)
(* grpc-server.go: the RPC Validate.                                       *)
(***************************************************************************)
PERMIT == "PERMIT"
DENY == "DENY"
ValidateMatch(adata, type, prio) == [ActionData |-> adata, ActionType |-> type, Priority |-> prio]
GrpcResp(effect, obligation, err) ==
  [NoResp EXCEPT !.effect = effect, !.obligation = obligation, !.err = err, !.shape = "rpc"]

\* The orders in which a range over a Go map may visit its keys.
Orders(S) == {o \in [1..Cardinality(S) -> S] : \A i, j \in 1..Cardinality(S) : o[i] = o[j] => i = j}

\* The loop over the matches, visited in the given order.
RECURSIVE bestMatch(_, _, _)
bestMatch(matches, order, best) ==
  IF order = <<>> THEN best
  ELSE LET val == matches[Head(order)]
       IN bestMatch(matches, Tail(order),
                    IF val.priority > best.Priority
                    THEN ValidateMatch(val.action_data, val.action_type, val.priority)
                    ELSE best)

\* The response once the query has returned a result of one or more entries.
verdict(matches, order) ==
  LET best == bestMatch(matches, order, ValidateMatch("", "", 0))
  IN IF best.ActionType = "action_block" THEN GrpcResp(DENY, <<>>, "")
     ELSE IF best.ActionType = "action_redirect"
     THEN GrpcResp(DENY, <<[Id |-> "redirect_to", Value |-> best.ActionData]>>, "")
     ELSE GrpcResp(PERMIT, <<>>, "")

grpcDataGetBegin(p) ==
  /\ At(p, "validate", "begin")
  /\ LET rec == h[p]
         parsed == parseInput(rec.req.params)
     IN IF parsed.err THEN Step(p, Return(rec, GrpcResp(DENY, <<>>, "request")))
        ELSE \E fail \in BOOLEAN :
          IF fail THEN Step(p, Return(rec, GrpcResp(DENY, <<>>, "Internal")))
          ELSE Step(p, [UseSnap(OpenTxn(rec), compiler) EXCEPT !.pc = "query"])
  /\ UNCHANGED <<boot, policies, data, compiler, started, lastPut, bvars, lvars, evars, qvars, pvars, rvars>>

grpcDataGetQuery_permits(p) ==
  /\ At(p, "validate", "query")
  /\ LET rec == h[p]
         result == rec.req.result
     IN \E fail \in BOOLEAN :
          IF fail THEN Step(p, Return(rec, GrpcResp(DENY, <<>>, "Internal")))
          ELSE IF parseInput(rec.req.params).nonGround
          THEN Step(p, Return(rec, GrpcResp(DENY, <<>>, "")))
          ELSE IF result.kind = "undefined" THEN Step(p, Return(rec, GrpcResp(PERMIT, <<>>, "")))
          ELSE IF result.kind # "match" THEN Step(p, Return(rec, GrpcResp("", <<>>, "panic")))
          ELSE \E order \in Orders(DOMAIN result.matches) :
                 Step(p, Return(rec, verdict(result.matches, order)))
  /\ UNCHANGED <<boot, policies, data, compiler, started, lastPut, bvars, lvars, evars, qvars, pvars, rvars>>

grpcDataGetQuery(p) ==
  /\ At(p, "validate", "query")
  /\ LET rec == h[p]
         result == rec.req.result
     IN \E fail \in BOOLEAN :
          IF fail THEN Step(p, Return(rec, GrpcResp(DENY, <<>>, "Internal")))
          ELSE IF parseInput(rec.req.params).nonGround
          THEN Step(p, Return(rec, GrpcResp(DENY, <<>>, "")))
          ELSE IF result.kind = "undefined" THEN Step(p, Return(rec, GrpcResp(DENY, <<>>, "")))
          ELSE IF result.kind # "match" THEN Step(p, Return(rec, GrpcResp("", <<>>, "panic")))
          ELSE \E order \in Orders(DOMAIN result.matches) :
                 Step(p, Return(rec, verdict(result.matches, order)))
  /\ UNCHANGED <<boot, policies, data, compiler, started, lastPut, bvars, lvars, evars, qvars, pvars, rvars>>

(***************************************************************************)
(* The server: every handler runs on its own task, step by step.           *)
(***************************************************************************)
Handler(p) ==
  \/ v1PoliciesPutBegin(p) \/ v1PoliciesPutCompile(p)
  \/ v1PoliciesPutInsert(p) \/ v1PoliciesPutPublish(p)
  \/ v1PoliciesDeleteBegin(p) \/ v1PoliciesDeleteCompile(p)
  \/ v1PoliciesDeleteDelete(p) \/ v1PoliciesDeletePublish(p)
  \/ v1PoliciesGetBegin(p) \/ v1PoliciesGetRespond(p)
  \/ v1PoliciesRawGet(p) \/ v1PoliciesList(p)
  \/ v1DataPutBegin(p) \/ v1DataPutMakeDir(p) \/ v1DataPutWrite(p)
  \/ v1DataPatchBegin(p) \/ prepareV1PatchSlice(p) \/ v1DataPatchApply(p)
  \/ v1DataGetBegin(p) \/ v1DataGetQuery(p)
  \/ v1QueryGetBegin(p) \/ v1QueryGetExec(p)
  \/ indexGetBegin(p) \/ indexGetExec(p)
  \/ grpcDataGetBegin(p) \/ grpcDataGetQuery(p)

Next == New \/ \E p \in Procs : Start(p) \/ Handler(p)

Spec == Init /\ [][Next]_vars

(***************************************************************************)
(* The request builder applied to every bounded pair list.                 *)
(***************************************************************************)
BuilderInit ==
  /\ ServerIdle
  /\ HolderIdle
  /\ ErrorsIdle
  /\ QueryIdle
  /\ PlanIdle
  /\ ParseIdle
  /\ bPairs \in PairLists
  /\ bResult = Built(Unset)
  /\ bPc = "input"

Build ==
  /\ bPc = "input"
  /\ bResult' = MakeRequest(bPairs)
  /\ bPc' = "built"
  /\ UNCHANGED <<bPairs, svars, lvars, evars, qvars, pvars, rvars>>

SpecBuilder == BuilderInit /\ [][Build]_vars

(***************************************************************************)
(* The compiler holder: Server.compiler behind Server.mtx.                 *)
(*                                                                         *)
(* setCompiler and Compiler are followed through the lock.  The assignment *)
(* to the field takes two steps; a load that meets it half done is a data  *)
(* race and may return the value or a torn one.                            *)
(***************************************************************************)
\* sync.RWMutex: Lock waits for the writer and the readers, RLock for the writer.
CanLock(m) == m.w = 0 /\ m.r = 0
CanRLock_always(m) == TRUE
CanRLock(m) == m.w = 0

\* return s.compiler: the values a load of the field may give.
Load(cur, flux) ==
  IF flux THEN {[set |-> TRUE, torn |-> TRUE, snap |-> EmptyMods],
                [set |-> TRUE, torn |-> FALSE, snap |-> cur]}
  ELSE {[set |-> TRUE, torn |-> FALSE, snap |-> cur]}

Publishing == {t \in Writers : lk[t].pc # "idle"}

setCompilerLock(t) ==
  /\ t \in Writers
  /\ lk[t].pc = "idle"
  /\ Len(pubs) + Cardinality(Publishing) < MaxPublishes
  /\ CanLock(mtx)
  /\ \E c \in Snapshots : lk' = [lk EXCEPT ![t].pc = "locked", ![t].c = c]
  /\ mtx' = [mtx EXCEPT !.w = t]
  /\ UNCHANGED <<svars, bvars, evars, qvars, pvars, rvars, pubs, influx>>

setCompilerAssign(t) ==
  /\ t \in Writers
  /\ lk[t].pc = "locked"
  /\ influx' = TRUE
  /\ lk' = [lk EXCEPT ![t].pc = "assigning"]
  /\ UNCHANGED <<svars, bvars, evars, qvars, pvars, rvars, mtx, pubs>>

setCompilerAssigned(t) ==
  /\ t \in Writers
  /\ lk[t].pc = "assigning"
  /\ setCompiler(lk[t].c)
  /\ influx' = (\E u \in Writers \ {t} : lk[u].pc = "assigning")
  /\ pubs' = Append(pubs, lk[t].c)
  /\ lk' = [lk EXCEPT ![t].pc = "assigned"]
  /\ UNCHANGED <<boot, policies, data, h, started, lastPut, bvars, evars, qvars, pvars, rvars, mtx>>

setCompilerUnlock(t) ==
  /\ t \in Writers
  /\ lk[t].pc = "assigned"
  /\ mtx' = [mtx EXCEPT !.w = 0]
  /\ lk' = [lk EXCEPT ![t].pc = "idle"]
  /\ UNCHANGED <<svars, bvars, evars, qvars, pvars, rvars, pubs, influx>>

CompilerRLock(t) ==
  /\ t \in Readers
  /\ lk[t].pc = "idle"
  /\ lk[t].reads < MaxReads
  /\ CanRLock(mtx)
  /\ mtx' = [mtx EXCEPT !.r = @ + 1]
  /\ lk' = [lk EXCEPT ![t].pc = "rlocked", ![t].reads = @ + 1]
  /\ UNCHANGED <<svars, bvars, evars, qvars, pvars, rvars, pubs, influx>>

CompilerLoad(t) ==
  /\ t \in Readers
  /\ lk[t].pc = "rlocked"
  /\ \E v \in Load(compiler, influx) : lk' = [lk EXCEPT ![t].pc = "loaded", ![t].got = v]
  /\ UNCHANGED <<svars, bvars, evars, qvars, pvars, rvars, mtx, pubs, influx>>

CompilerRUnlock_keeps(t) ==
  /\ t \in Readers
  /\ lk[t].pc = "loaded"
  /\ lk' = [lk EXCEPT ![t].pc = "idle"]
  /\ UNCHANGED <<svars, bvars, evars, qvars, pvars, rvars, mtx, pubs, influx>>

CompilerRUnlock(t) ==
  /\ t \in Readers
  /\ lk[t].pc = "loaded"
  /\ mtx' = [mtx EXCEPT !.r = @ - 1]
  /\ lk' = [lk EXCEPT ![t].pc = "idle"]
  /\ UNCHANGED <<svars, bvars, evars, qvars, pvars, rvars, pubs, influx>>

HolderInit ==
  ServerIdle /\ BuilderIdle /\ HolderIdle /\ ErrorsIdle /\ QueryIdle /\ PlanIdle /\ ParseIdle

HolderNext ==
  \E t \in Writers \cup Readers :
    \/ setCompilerLock(t) \/ setCompilerAssign(t) \/ setCompilerAssigned(t)
    \/ setCompilerUnlock(t)
    \/ CompilerRLock(t) \/ CompilerLoad(t) \/ CompilerRUnlock(t)

SpecHolder == HolderInit /\ [][HolderNext]_vars

(***************************************************************************)
(* handleErrorAuto on chains of errors.  An error is the sequence of its   *)
(* links, outermost first: wrappers that have a cause, then the error that *)
(* has none.  curr and prev are positions in the sequence, 0 for nil.      *)
(***************************************************************************)
MaxWrap == 2
Wrappers == {"withMessage", "withStack"}
ErrorKinds == {"NotFound", "WriteConflict", "BadRequest", "InvalidPatch", "Internal"}
Recognized(kind) == kind \in {"NotFound", "WriteConflict", "BadRequest", "InvalidPatch"}

\* The errors handleErrorAuto is given: at most MaxWrap wrappers around an error
\* of one of the kinds.
Chains ==
  {w \o <<k>> : w \in SeqsUpTo(Wrappers, MaxWrap), k \in ErrorKinds}

\* WriteConflictError holds a storage.Path, so two of them cannot be compared;
\* the wrappers and the other kinds are pointers or strings.
Comparable(link) == link # "WriteConflict"

\* errors.Cause: the innermost error, the one that has no cause.
RECURSIVE Cause(_, _)
Cause_none(e, i) == i
Cause(e, i) == IF e[i] \in Wrappers /\ i < Len(e) THEN Cause(e, i + 1) ELSE i

\* The loop condition curr != prev.
handleErrorAutoTest ==
  /\ ePc = "test"
  /\ IF eCurr # ePrev
     THEN ePc' = "match" /\ eOut' = eOut
     ELSE IF Comparable(eErr[eCurr])
     THEN ePc' = "done" /\ eOut' = Append(eOut, 500)
     ELSE ePc' = "panic" /\ eOut' = eOut
  /\ UNCHANGED <<eErr, ePrev, eCurr, svars, bvars, lvars, qvars, pvars, rvars>>

\* The loop body: the four tests on curr, then prev = curr and
\* curr = errors.Cause(prev).
handleErrorAutoMatch ==
  /\ ePc = "match"
  /\ IF Recognized(eErr[eCurr])
     THEN /\ ePc' = "done"
          /\ eOut' = Append(eOut, handleErrorAuto(eErr[eCurr]).code)
          /\ UNCHANGED <<ePrev, eCurr>>
     ELSE /\ ePrev' = eCurr
          /\ eCurr' = Cause(eErr, eCurr)
          /\ ePc' = "test"
          /\ eOut' = eOut
  /\ UNCHANGED <<eErr, svars, bvars, lvars, qvars, pvars, rvars>>

ErrorsInit ==
  /\ ServerIdle /\ BuilderIdle /\ HolderIdle
  /\ QueryIdle
  /\ PlanIdle
  /\ ParseIdle
  /\ eErr \in Chains
  /\ ePrev = 0
  /\ eCurr = 1
  /\ ePc = "test"
  /\ eOut = <<>>

ErrorsNext == handleErrorAutoTest \/ handleErrorAutoMatch

\* The call runs to its end: nothing but the loop itself decides its steps.
SpecErrors == ErrorsInit /\ [][ErrorsNext]_vars /\ WF_vars(ErrorsNext)

(***************************************************************************)
(* execQuery with explain off: the result set built from the solutions of  *)
(* topdown.Eval.  A solution is the map t.Locals, from keys to values.     *)
(***************************************************************************)
MaxSolutions == 2
\* a variable, a wildcard variable, and a key that is no variable
LocalKeys == {"x", "$0", "data.a[i]"}
IsVar(k) == k \in {"x", "$0"}
IsWildcard(k) == k = "$0"
\* a value, and one that topdown.ValueToInterface refuses
LocalValues == {"1", "unground"}
Locals == UNION {[ks -> LocalValues] : ks \in SUBSET LocalKeys}
Solutions == SeqsUpTo(Locals, MaxSolutions)

\* The callback's map result: the bindings of the variables that are no wildcards.
Bindings(sol) ==
  LET named == {k \in DOMAIN sol : IsVar(k) /\ ~IsWildcard(k)}
  IN [k \in named |-> sol[k]]

\* The callback of topdown.Eval on one solution.
execQueryEval ==
  /\ qPc = "eval"
  /\ qIdx <= Len(qSols)
  /\ LET result == Bindings(qSols[qIdx])
     IN IF \E k \in DOMAIN result : result[k] = "unground"
        THEN qErr' = TRUE /\ qPc' = "done" /\ UNCHANGED <<qIdx, qSet>>
        ELSE /\ qSet' = IF DOMAIN result # {} THEN Append(qSet, result) ELSE qSet
             /\ qIdx' = qIdx + 1
             /\ UNCHANGED <<qErr, qPc>>
  /\ UNCHANGED <<qSols, svars, bvars, lvars, evars, pvars, rvars>>

\* topdown.Eval has returned without error: execQuery returns resultSet.
execQueryReturn ==
  /\ qPc = "eval"
  /\ qIdx > Len(qSols)
  /\ qPc' = "done"
  /\ UNCHANGED <<qSols, qIdx, qSet, qErr, svars, bvars, lvars, evars, pvars, rvars>>

QueryInit ==
  /\ ServerIdle /\ BuilderIdle /\ HolderIdle /\ ErrorsIdle
  /\ PlanIdle
  /\ ParseIdle
  /\ qSols \in Solutions
  /\ qIdx = 1
  /\ qSet = <<>>
  /\ qErr = FALSE
  /\ qPc = "eval"

QueryNext == execQueryEval \/ execQueryReturn

SpecQuery == QueryInit /\ [][QueryNext]_vars

(***************************************************************************)
(* prepareV1PatchSlice on its own, against one snapshot: the planning of a *)
(* PATCH body under a root, ops ending in the segment - included.          *)
(***************************************************************************)
MaxPlanOps == 2
PlanRoots == {<<"a">>, <<"a", "b">>}
PlanSnapshots == {EmptyMods, [i \in {"p"} |-> ModAB]}
PlanPaths == {<<>>, <<"b">>, <<"-">>, <<"b", "-">>, <<"b", "", "c">>}
PlanOps == {PatchV1(o, pa, Num(1)) : o \in {"add", "remove", "replace", "move"}, pa \in PlanPaths}
PlanLists == {l \in SeqsUpTo(PlanOps, MaxPlanOps) :
                \A i \in 1..(Len(l) - 1) : ~EndsPlanning(l[i])}

\* One iteration of the loop of prepareV1PatchSlice.
prepareV1PatchSliceOp ==
  /\ planIdx \in 1..Len(planOps)
  /\ planErr = NoErr
  /\ LET op == planOps[planIdx]
         path == planRoot \o op.path
         conflict == writeConflict(planSnap, op.op, path)
     IN IF op.op \notin {"add", "remove", "replace"}
        THEN planErr' = [kind |-> "BadRequest", path |-> <<>>] /\ UNCHANGED <<planIdx, planResult>>
        ELSE IF ~ParsePath(path)
        THEN planErr' = [kind |-> "BadRequest", path |-> op.path] /\ UNCHANGED <<planIdx, planResult>>
        ELSE IF conflict.err # "none"
        THEN /\ planErr' = [kind |-> conflict.err, path |-> conflict.path]
             /\ UNCHANGED <<planIdx, planResult>>
        ELSE /\ planResult' = Append(planResult, PatchImpl(op.op, path, op.value))
             /\ planIdx' = planIdx + 1
             /\ planErr' = planErr
  /\ UNCHANGED <<planSnap, planRoot, planOps, svars, bvars, lvars, evars, qvars, rvars>>

PlanInit ==
  /\ ServerIdle /\ BuilderIdle /\ HolderIdle /\ ErrorsIdle /\ QueryIdle
  /\ ParseIdle
  /\ planSnap \in PlanSnapshots
  /\ planRoot \in PlanRoots
  /\ planOps \in PlanLists
  /\ planIdx = 1
  /\ planResult = <<>>
  /\ planErr = NoErr

PlanNext == prepareV1PatchSliceOp

SpecPlan == PlanInit /\ [][PlanNext]_vars

(***************************************************************************)
(* parseRequest on its own, and what v1DataGet answers on its error.  An   *)
(* item of the request parameter is a sequence of lexemes: the colon, the  *)
(* identifiers a and b, the number 1, and an opening brace never closed.   *)
(***************************************************************************)
MaxItemLen == 3
Lexemes == {":", "a", "b", "1", "{"}
Items == SeqsUpTo(Lexemes, MaxItemLen)

\* ast.ParseTerm: one identifier is a variable, one number a ground scalar,
\* and nothing else is a term.
VarTerm(name) == [t |-> name, n |-> 0, f |-> <<>>]
NoTerm == [ok |-> FALSE, term |-> Unset, ground |-> TRUE]
ParseTerm(ls) ==
  IF Len(ls) = 1 /\ ls[1] \in {"a", "b"} THEN [ok |-> TRUE, term |-> VarTerm(ls[1]), ground |-> FALSE]
  ELSE IF Len(ls) = 1 /\ ls[1] = "1" THEN [ok |-> TRUE, term |-> Num(1), ground |-> TRUE]
  ELSE NoTerm
\* ast.ParseTerm of request.<prefix>: the ref it yields, <<>> when it fails
ParseKey(ls) ==
  IF Len(ls) = 1 /\ ls[1] \in {"a", "b"} THEN <<RequestRoot, ls[1]>> ELSE <<>>
\* strings.SplitN(item, ":", 2)
Colons(ls) == {i \in 1..Len(ls) : ls[i] = ":"}
FirstColon(ls) == CHOOSE i \in Colons(ls) : \A j \in Colons(ls) : i <= j
SplitN(ls) ==
  IF Colons(ls) = {} THEN <<ls>>
  ELSE <<SubSeq(ls, 1, FirstColon(ls) - 1), SubSeq(ls, FirstColon(ls) + 1, Len(ls))>>

\* The pair read from one item, or the error the loop returns on it.
ItemPair(k, v) == [err |-> "none", ref |-> k, value |-> v.term, ground |-> v.ground]
ItemErr(kind) == [err |-> kind, ref |-> <<>>, value |-> Unset, ground |-> TRUE]
ValueOrErr(k, v) == IF v.ok THEN ItemPair(k, v) ELSE ItemErr("parser")
ReadItem(item) ==
  IF item = <<>> THEN ItemErr("panic")
  ELSE IF item[1] = ":" THEN ValueOrErr(<<>>, ParseTerm(Tail(item)))
  ELSE IF ParseTerm(item).ok THEN ItemPair(<<>>, ParseTerm(item))
  ELSE LET vs == SplitN(item)
       IN IF Len(vs) # 2 THEN ItemErr("format")
          ELSE IF ParseKey(vs[1]) = <<>> THEN ItemErr("format")
          ELSE ValueOrErr(ParseKey(vs[1]), ParseTerm(vs[2]))

\* Lists of items: the loop reads a second item only after a first it could read.
ItemLists ==
  {<<>>} \cup {<<i>> : i \in Items}
         \cup {<<i, j>> : i \in {x \in Items : ReadItem(x).err = "none"}, j \in Items}

\* One iteration of the loop of parseRequest.
parseRequestItem ==
  /\ rPc = "loop"
  /\ rIdx <= Len(rItems)
  /\ LET read == ReadItem(rItems[rIdx])
     IN IF read.err = "panic"
        THEN rPc' = "panicked" /\ UNCHANGED <<rIdx, rPairs, rNonGround, rErr>>
        ELSE IF read.err # "none"
        THEN rErr' = read.err /\ rPc' = "returned" /\ UNCHANGED <<rIdx, rPairs, rNonGround>>
        ELSE /\ rPairs' = Append(rPairs, [ref |-> read.ref, value |-> read.value])
             /\ rNonGround' = (rNonGround \/ ~read.ground)
             /\ rIdx' = rIdx + 1
             /\ UNCHANGED <<rErr, rPc>>
  /\ UNCHANGED <<rItems, rOut, svars, bvars, lvars, evars, qvars, pvars>>

\* After the loop: topdown.MakeRequest(pairs).
parseRequestBuild ==
  /\ rPc = "loop"
  /\ rIdx > Len(rItems)
  /\ rErr' = MakeRequest(rPairs).err
  /\ rPc' = "returned"
  /\ UNCHANGED <<rItems, rIdx, rPairs, rNonGround, rOut, svars, bvars, lvars, evars, qvars, pvars>>

\* v1DataGet on the return of parseRequest: 400 with the error, or on to the
\* explain check and the evaluation.
v1DataGetParsed ==
  /\ rPc = "returned"
  /\ IF rErr # "none" THEN rOut' = Resp(400, rErr, "error", Unset) /\ rPc' = "answered"
     ELSE rPc' = "evaluating" /\ rOut' = rOut
  /\ UNCHANGED <<rItems, rIdx, rPairs, rNonGround, rErr, svars, bvars, lvars, evars, qvars, pvars>>

ParseInit ==
  /\ ServerIdle /\ BuilderIdle /\ HolderIdle /\ ErrorsIdle /\ QueryIdle /\ PlanIdle
  /\ rItems \in ItemLists
  /\ rIdx = 1
  /\ rPairs = <<>>
  /\ rNonGround = FALSE
  /\ rErr = "none"
  /\ rPc = "loop"
  /\ rOut = NoResp

ParseNext == parseRequestItem \/ parseRequestBuild \/ v1DataGetParsed

SpecParse == ParseInit /\ [][ParseNext]_vars

(***************************************************************************)
(* Properties of the server.                                               *)
(***************************************************************************)
Up == boot.state = "up"
Mutating(p) == h[p].kind \in Mutations /\ h[p].pc \notin {"idle", "done"}
Finishes(p) == h[p].pc \notin {"idle", "done"} /\ h'[p].pc = "done"
HasVirtualAt(snap, path) == GetRulesForVirtualDocument(snap, path) # {}

\* C1: whenever no policy mutation is in progress, the current snapshot holds
\* exactly the modules of the store.
C1_SnapshotIsStoredSet ==
  (Up /\ \A p \in Procs : ~Mutating(p)) => compiler = policies

\* C2: while the snapshot has a rule at or under P, an add or replace write to P
\* (the write of a PUT, each op of a PATCH) ends in WriteConflict, status 404, and
\* nothing is written.
C2_Refused(p) ==
  h'[p].resp.err # "Internal" =>
    /\ h'[p].pc = "done"
    /\ h'[p].resp.code = 404
    /\ h'[p].resp.err = "WriteConflict"
    /\ data' = data
C2_VirtualWritesConflict ==
  [][\A p \in Procs :
       /\ (At(p, "dataPut", "write") /\ h'[p] # h[p]
             /\ HasVirtualAt(compiler, h[p].req.path)) => C2_Refused(p)
       /\ (At(p, "dataPatch", "prepare") /\ h'[p] # h[p]
             /\ h[p].req.ops[h[p].idx].op \in {AddOp, ReplaceOp}
             /\ ParsePath(h[p].req.path \o h[p].req.ops[h[p].idx].path)
             /\ HasVirtualAt(compiler, h[p].req.path \o h[p].req.ops[h[p].idx].path))
            => C2_Refused(p)
       /\ (At(p, "dataPatch", "apply") /\ h'[p] # h[p]
             /\ h[p].patches[h[p].idx].op \in {AddOp, ReplaceOp}
             /\ HasVirtualAt(compiler, h[p].patches[h[p].idx].path)) => C2_Refused(p)
    ]_vars

\* C3: every handler reads one snapshot only: no step of it uses a snapshot other
\* than the one it obtained first.
C3_OneSnapshotPerHandler == \A p \in Procs : ~h[p].mixed

\* C4: the modules of the store compile as a whole.
C4_StoredSetCompiles == Up => ~CompileFailed(policies)

\* C5: a policy PUT or DELETE that ends without success has changed neither the
\* store's modules nor the current snapshot, and the snapshot changes only in the
\* publish step of a handler whose store change has succeeded.
C5_FailedMutationChangesNothing ==
  [][/\ \A p \in Procs :
          (h[p].kind \in Mutations /\ Finishes(p) /\ h'[p].resp.code \notin {200, 204})
            => (policies' = policies /\ compiler' = compiler /\ ~h[p].stored)
     /\ (Up /\ compiler' # compiler)
          => \E p \in Procs : /\ h[p].kind \in Mutations
                              /\ h[p].pc = "publish"
                              /\ h[p].stored
                              /\ Finishes(p)
                              /\ h'[p].resp.code \in {200, 204}
                              /\ policies' = policies
    ]_vars

C5_Witness ==
  \E p \in Procs : /\ h[p].kind \in Mutations
                   /\ h[p].pc = "done"
                   /\ h[p].txn = "closed"
                   /\ h[p].resp.err \in {"compile", "Internal"}
                   /\ compiler = policies
                   /\ compiler # EmptyMods

\* C6: a GET of P that follows a PUT of V at P answered 204, with no data write or
\* policy mutation in between, no request parameters and explain off, returns 200
\* with V; a GET of a key under P that V does not have returns 404.
C6_GetObservesPut ==
  [][\A p \in Procs :
       (/\ At(p, "dataGet", "query")
        /\ Finishes(p)
        /\ h[p].putSeen.set
        /\ lastPut = h[p].putSeen
        /\ h[p].req.params = "none"
        /\ h[p].req.explain = "off"
        /\ h'[p].resp.err # "Internal")
       => LET path == h[p].req.path
              P == lastPut.path
              V == lastPut.value
          IN /\ path = P => (h'[p].resp.code = 200 /\ h'[p].resp.body = V)
             /\ (Front(path) = P /\ ~HasKey(V, Last(path))) => h'[p].resp.code = 404
    ]_vars

\* C10: a handler that has returned holds no open transaction, and a transaction
\* it opened has been closed exactly once; so for New.
C10_TransactionsClosedOnce ==
  /\ boot.state # "none" => (boot.txn # "open" /\ (boot.txn = "closed" <=> boot.closes = 1))
  /\ \A p \in Procs :
       /\ h[p].closes <= 1
       /\ h[p].pc = "done" => /\ h[p].txn \in {"none", "closed"}
                              /\ h[p].txn = "closed" <=> h[p].closes = 1

C10_Witness ==
  \E p \in Procs : /\ h[p].pc = "done"
                   /\ h[p].txn = "closed"
                   /\ h[p].closes = 1
                   /\ h[p].resp.code \in {400, 404, 500}

\* C15: PATCH validates the whole batch before it writes: a step of the planning
\* loop writes nothing, a handler that ends there answers with the error and has
\* written nothing, and the write loop starts only with every op planned (known
\* operation, parseable joined path), writes the planned ops one by one in input
\* order, all in the one transaction the handler opened.
C15_PatchValidatesBeforeWriting ==
  [][\A p \in Procs :
       /\ (At(p, "dataPatch", "prepare") /\ h'[p] # h[p])
            => /\ data' = data
               /\ ~h'[p].wrote
               /\ Finishes(p) => h'[p].resp.code \in {400, 404}
       /\ (At(p, "dataPatch", "apply") /\ h'[p] # h[p])
            => LET rec == h[p]
                   ops == rec.req.ops
               IN /\ Len(rec.patches) = Len(ops)
                  /\ \A i \in 1..Len(ops) :
                       /\ ops[i].op \in {"add", "remove", "replace"}
                       /\ ParsePath(rec.req.path \o ops[i].path)
                       /\ rec.patches[i] = PatchImpl(ops[i].op, rec.req.path \o ops[i].path,
                                                     ops[i].value)
                  /\ rec.txn = "open" /\ rec.closes = 0
                  /\ rec.wrote <=> rec.idx > 1
                  /\ data' # data
                       => /\ data' = StoreWrite(data, ops[rec.idx].op,
                                                rec.req.path \o ops[rec.idx].path,
                                                ops[rec.idx].value).doc
                          /\ IF rec.idx = Len(ops) THEN h'[p].resp.code = 204
                             ELSE h'[p].idx = rec.idx + 1 /\ h'[p].pc = "apply"
                  /\ h'[p].resp.code = 204 => rec.idx = Len(ops)
    ]_vars

C15_Witness ==
  \E p \in Procs : /\ h[p].kind = "dataPatch"
                   /\ h[p].pc = "done"
                   /\ h[p].resp.err = "WriteConflict"
                   /\ ~h[p].wrote
                   /\ h[p].txn = "closed"
                   /\ IsObject(Lookup(data, <<"a">>))

\* The document a data GET evaluates to, <<>>-rooted value or Unset.
Queried(p) == QueryValue(h[p].snap, data, h[p].req.path)
Ground(p) == ~parseRequest(h[p].req.params).err /\ ~parseRequest(h[p].req.params).nonGround
NonGround(p) == parseRequest(h[p].req.params).nonGround

\* C17: a data GET with ground request values whose evaluation raises no error
\* answers, with explain off, 200 and the single value if the document is
\* defined and 404 if it is not; with explain=full, 200 if defined and 404 if
\* not, the trace being the body in both cases.
C17_GroundDataGet ==
  [][\A p \in Procs :
       (At(p, "dataGet", "query") /\ Ground(p) /\ Finishes(p) /\ h'[p].resp.err = "")
         => LET r == h'[p].resp
            IN /\ h[p].req.explain = "off"
                    => IF IsSet(Queried(p))
                       THEN r.code = 200 /\ r.shape = "value" /\ r.body = Queried(p)
                       ELSE r.code = 404 /\ r.shape = "none"
               /\ h[p].req.explain = "full"
                    => /\ r.code = (IF IsSet(Queried(p)) THEN 200 ELSE 404)
                       /\ r.shape = "trace"
    ]_vars

C17_Witness ==
  \E p \in Procs : /\ h[p].kind = "dataGet"
                   /\ h[p].pc = "done"
                   /\ h[p].resp.code = 404
                   /\ h[p].resp.shape = "trace"

\* C18: a data GET with non-ground request values and explain=full or
\* explain=truth is answered 400 at once, with no transaction opened, no
\* snapshot taken and nothing evaluated; with explain off it answers 200 with
\* the set of results when the evaluation raises no error and is defined.
C18_NonGroundDataGet ==
  [][\A p \in Procs :
       /\ (At(p, "dataGet", "begin") /\ NonGround(p) /\ h[p].req.explain # "off"
             /\ h'[p] # h[p])
            => /\ h'[p].pc = "done"
               /\ h'[p].resp.code = 400
               /\ h[p].txn = "none" /\ ~h[p].hasSnap
               /\ h'[p].txn = "none" /\ h'[p].closes = 0
       /\ (At(p, "dataGet", "query") /\ NonGround(p) /\ h'[p] # h[p])
            => /\ h[p].req.explain = "off"
               /\ (h'[p].resp.err = "" /\ IsSet(Queried(p)))
                    => /\ h'[p].resp.code = 200
                       /\ h'[p].resp.shape = "resultset"
                       /\ h'[p].resp.body = Queried(p)
    ]_vars

C18_Witness ==
  \E p \in Procs : /\ h[p].kind = "dataGet"
                   /\ h[p].pc = "done"
                   /\ h[p].resp.code = 400
                   /\ h[p].resp.err = "explain"
                   /\ h[p].txn = "none"

\* A data PUT past its read of P: the read found no document (the handler went
\* through makeDir, which leaves idx set) or found one.
PutFoundNone(p) ==
  \/ At(p, "dataPut", "makeDir")
  \/ At(p, "dataPut", "write") /\ h[p].idx > 0
PutFoundOne(p) == At(p, "dataPut", "write") /\ h[p].idx = 0
PutReads(p) ==
  /\ At(p, "dataPut", "begin") /\ h[p].req.decodes /\ ParsePath(h[p].req.path)
  /\ h'[p] # h[p]
  /\ h'[p].resp.err # "Internal"
StoredAt(doc, p) == Lookup(doc, h[p].req.path)

\* What C20 says of a PUT that finds a document at P: with If-None-Match: * it
\* answers 304 and leaves the store as it is, and no write of such a PUT ever
\* lands on a document; without the header the document is replaced.
PutOnExisting(p) ==
  /\ (PutReads(p) /\ h[p].req.inm /\ IsSet(StoredAt(data, p)))
       => h'[p].pc = "done" /\ h'[p].resp.code = 304 /\ data' = data /\ ~h'[p].wrote
  /\ (At(p, "dataPut", "write") /\ h[p].req.inm /\ data' # data)
       => ~IsSet(StoredAt(data, p))
  /\ (PutReads(p) /\ ~h[p].req.inm /\ IsSet(StoredAt(data, p)))
       => h'[p].pc = "write"
  /\ (PutFoundOne(p) /\ Finishes(p) /\ h'[p].resp.err # "Internal")
       => /\ ~h[p].req.inm
          /\ h'[p].resp.code = 204
          /\ StoredAt(data', p) = h[p].req.value

Ancestors(p) == {SubSeq(h[p].req.path, 1, n) : n \in 1..(Len(h[p].req.path) - 1)}
Missing(doc, p) == {a \in Ancestors(p) : ~IsSet(Lookup(doc, a))}

Settled(p) ==
  /\ \A q \in Procs \ {p} : h[q].pc \in {"idle", "done"}
  /\ compiler = policies
AncestorsAllow(p) == \A a \in Ancestors(p) : ~IsSet(Lookup(data, a)) \/ IsObject(Lookup(data, a))

\* C24: the write-conflict check follows the published snapshot: while a module
\* with a rule at or under P is installed, a PUT of P that finds no document
\* there answers 404 WriteConflict and stores nothing; once no module has such
\* a rule (the only one was deleted), the same PUT answers 204 and the
\* document is stored.
C24_ConflictFollowsSnapshot ==
  [][\A p \in Procs :
       (PutFoundNone(p) /\ Finishes(p) /\ Settled(p) /\ h'[p].resp.err # "Internal")
         => IF HasVirtualAt(compiler, h[p].req.path)
            THEN /\ h'[p].resp.code = 404
                 /\ h'[p].resp.err = "WriteConflict"
                 /\ ~IsSet(StoredAt(data', p))
            ELSE (RulesOf(compiler) = {} /\ AncestorsAllow(p))
                   => /\ h'[p].resp.code = 204
                      /\ StoredAt(data', p) = h[p].req.value
    ]_vars

(***************************************************************************)
(* Properties of prepareV1PatchSlice.                                      *)
(***************************************************************************)
Joined(i) == planRoot \o planOps[i].path
EndsInDash(path) == Len(path) > 0 /\ Last(path) = "-"
\* the ops the loop has dealt with: those planned and the one refused
Dealt == 1..(IF planErr = NoErr THEN Len(planResult) ELSE Len(planResult) + 1)
Conflicts(i) == i = Len(planResult) + 1 /\ planErr.kind = "WriteConflict"

IsValue(ls) == ParseTerm(ls).ok
IsPath(ls) == ParseKey(ls) # <<>>
WellFormed(item) ==
  \/ IsValue(item)
  \/ item # <<>> /\ item[1] = ":" /\ IsValue(Tail(item))
  \/ Len(SplitN(item)) = 2 /\ IsPath(SplitN(item)[1]) /\ IsValue(SplitN(item)[2])
ParseOver == rPc \in {"answered", "evaluating", "panicked"}

\* C26: an item of the request parameter that fails to parse (no value that
\* parses, a prefix that is no path, a path followed by a value that does not
\* parse, an empty item) makes the data GET answer 400 with the message of
\* the parameter's format, and nothing is evaluated.
C26_MalformedItemIs400 ==
  (ParseOver /\ \E i \in 1..Len(rItems) : ~WellFormed(rItems[i]))
    => rPc = "answered" /\ rOut.code = 400 /\ rOut.err = "format"

(***************************************************************************)
(* Properties of execQuery.                                                *)
(***************************************************************************)
\* C22: with explain off and no error, the result set has one entry per
\* solution, in solution order, each the map of the solution's non-wildcard
\* variable bindings, solutions that bind no such variable included.
C22_OneEntryPerSolution ==
  (qPc = "done" /\ ~qErr) =>
    /\ Len(qSet) = Len(qSols)
    /\ \A i \in 1..Len(qSols) : qSet[i] = Bindings(qSols[i])

(***************************************************************************)
(* Properties of handleErrorAuto.                                          *)
(***************************************************************************)
RecognizedAt(e) == {i \in 1..Len(e) : Recognized(e[i])}
FirstRecognized(e) == CHOOSE i \in RecognizedAt(e) : \A j \in RecognizedAt(e) : i <= j
StatusOfChain(e) ==
  IF RecognizedAt(e) = {} THEN 500
  ELSE IF e[FirstRecognized(e)] \in {"NotFound", "WriteConflict"} THEN 404 ELSE 400

\* C16: handleErrorAuto ends on every error, having written exactly one
\* response, whose status is that of the first recognized kind on the cause
\* chain read from the outermost error inward, and 500 if the chain has none.
C16_OneStatusOfFirstRecognized ==
  /\ [](Len(eOut) <= 1)
  /\ [](ePc = "done" => eOut = <<StatusOfChain(eErr)>>)
  /\ <>(ePc = "done")

C16_Witness ==
  /\ ePc = "done"
  /\ Len(eErr) = 3
  /\ eErr[3] = "WriteConflict"
  /\ eOut = <<404>>

(***************************************************************************)
(* Properties of the RPC Validate.                                         *)
(***************************************************************************)
\* The step in which a ground Validate request gets its response from the
\* evaluation result, no call having failed.
Validated(p) ==
  /\ At(p, "validate", "query")
  /\ Finishes(p)
  /\ h[p].req.params = "ground"
  /\ h'[p].resp.err # "Internal"
Greatest(matches) ==
  {i \in DOMAIN matches : \A j \in DOMAIN matches : matches[j].priority <= matches[i].priority}
EffectOf(type) == IF type \in {"action_block", "action_redirect"} THEN DENY ELSE PERMIT
ObligationOf(m) ==
  IF m.action_type = "action_redirect"
  THEN <<[Id |-> "redirect_to", Value |-> m.action_data]>>
  ELSE <<>>

\* C12: for a ground request whose result has a non-empty match object, the
\* verdict is that of a match of the greatest priority (block and redirect deny,
\* anything else permits), whatever the priorities are.
C12_VerdictOfGreatestPriority ==
  [][\A p \in Procs :
       (Validated(p) /\ h[p].req.result.kind = "match"
          /\ DOMAIN h[p].req.result.matches # {})
       => \E i \in Greatest(h[p].req.result.matches) :
            /\ h'[p].resp.err = ""
            /\ h'[p].resp.effect = EffectOf(h[p].req.result.matches[i].action_type)
    ]_vars

\* C13: with no match object at all (an undefined result, or a result without
\* the key match) the response is DENY; with an empty match object it is PERMIT
\* with no obligation.
C13_NoMatchDenies ==
  [][\A p \in Procs :
       Validated(p) =>
         /\ h[p].req.result.kind \in {"undefined", "nomatch"}
              => (h'[p].resp.err = "" /\ h'[p].resp.effect = DENY)
         /\ (h[p].req.result.kind = "match" /\ DOMAIN h[p].req.result.matches = {})
              => (h'[p].resp.err = "" /\ h'[p].resp.effect = PERMIT
                    /\ h'[p].resp.obligation = <<>>)
    ]_vars

\* C14: the response carries an obligation iff the match of the greatest priority
\* is a redirect; then the verdict is DENY and the one obligation is redirect_to
\* with that match's action_data; a block gives DENY and no obligation.
C14_ObligationIffRedirect ==
  [][\A p \in Procs :
       Validated(p) =>
         IF h[p].req.result.kind = "match" /\ DOMAIN h[p].req.result.matches # {}
         THEN \E i \in Greatest(h[p].req.result.matches) :
                LET m == h[p].req.result.matches[i]
                IN /\ h'[p].resp.obligation = ObligationOf(m)
                   /\ m.action_type \in {"action_redirect", "action_block"}
                        => h'[p].resp.effect = DENY
         ELSE h'[p].resp.obligation = <<>>
    ]_vars

\* C27: Validate fails closed.  On every path that does not reach the choice
\* among the matches (an error of parseInput, of the opening of the
\* transaction, of the evaluation, a non-ground input, an undefined result) the
\* response is DENY with no obligation; PERMIT is returned only after an
\* evaluation without error whose result is defined.
C27_ValidateFailsClosed ==
  [][\A p \in Procs :
       (h[p].kind = "validate" /\ Finishes(p)) =>
         LET parsed == parseInput(h[p].req.params)
             result == h[p].req.result
             out == h'[p].resp
         IN /\ (\/ h[p].pc = "begin"
                 \/ out.err = "Internal"
                 \/ parsed.nonGround
                 \/ result.kind = "undefined")
                 => (out.effect = DENY /\ out.obligation = <<>>)
            /\ out.effect = PERMIT
                 => /\ h[p].pc = "query"
                    /\ out.err = ""
                    /\ ~parsed.err /\ ~parsed.nonGround
                    /\ result.kind = "match"
    ]_vars

\* An evaluation that failed, after the transaction was opened, answered DENY.
C27_Witness ==
  \E p \in Procs : /\ h[p].kind = "validate"
                   /\ h[p].pc = "done"
                   /\ h[p].closes = 1
                   /\ h[p].resp.err = "Internal"
                   /\ h[p].resp.effect = DENY
                   /\ h[p].resp.obligation = <<>>

\* C28: a GET of a policy answered 200 carries the compiled module of that id,
\* never a missing one: once the lookup in the store has succeeded, the
\* snapshot the handler then takes contains the id, also while a PUT or DELETE
\* of the same id is between its change of the store and its publish.
C28_PolicyGetCarriesModule ==
  \A p \in Procs :
    (h[p].kind = "policyGet" /\ h[p].pc = "done" /\ h[p].resp.code = 200)
      => (h[p].resp.shape = "policy" /\ h[p].module # NoMod)

(***************************************************************************)
(* Properties of the compiler holder.                                      *)
(***************************************************************************)
LastPublished == IF pubs = <<>> THEN EmptyMods ELSE pubs[Len(pubs)]

\* C11: there is one current snapshot, that of the last completed publish: no
\* assignment is in progress while a reader is inside Compiler, at most one
\* writer assigns at a time, and every load returns an untorn value equal to the
\* snapshot of the most recently completed publish, never an older one.
C11_CurrentIsLastPublish ==
  [][/\ (\E t \in Readers : lk[t].pc \in {"rlocked", "loaded"}) => ~influx
     /\ Cardinality({t \in Writers : lk[t].pc \in {"locked", "assigning", "assigned"}}) <= 1
     /\ ~influx => compiler = LastPublished
     /\ \A t \in Readers :
          (lk[t].pc = "rlocked" /\ lk'[t].pc = "loaded")
            => (~lk'[t].got.torn /\ lk'[t].got.snap = LastPublished)
    ]_vars

C11_Witness ==
  /\ Len(pubs) = 2
  /\ pubs[1] # pubs[2]
  /\ \E t \in Readers : /\ lk[t].pc = "loaded"
                          /\ lk[t].reads = 2
                          /\ lk[t].got.snap = pubs[2]

\* A reader is a handler that calls Compiler up to MaxReads times; it is in
\* progress with a snapshot once a call has returned one, while it is inside
\* a call or has a call left to make.  A writer outside setCompiler is
\* recompiling or has nothing to publish.
InsideCompiler(t) == lk[t].pc \in {"rlocked", "loaded"}
InsideSetCompiler(t) == lk[t].pc \in {"locked", "assigning", "assigned"}
ReadInProgress(t) == lk[t].got.set /\ (InsideCompiler(t) \/ lk[t].reads < MaxReads)
WritersOutside ==
  /\ \A t \in Writers : (mtx.w = t) <=> InsideSetCompiler(t)
  /\ (\A t \in Writers : ~InsideSetCompiler(t)) => CanRLock(mtx)

\* C23 (as stated): a reading handler holds shared access from its snapshot
\* until it finishes, so no publish completes while a read handler is in
\* progress; a writer holds exclusive access only inside the publish step, so
\* Compiler is never blocked by a recompilation.
C23_ReadersHoldUntilFinished ==
  [][/\ \A t \in Readers : ReadInProgress(t) => mtx.r > 0
     /\ pubs' # pubs => \A t \in Readers : ~ReadInProgress(t)
     /\ WritersOutside
    ]_vars

\* C23 (amended): a reading handler holds shared access only inside its call
\* of Compiler, so no publish completes while a reader is inside that call,
\* but publishes do complete while the handler goes on with its snapshot; a
\* writer holds exclusive access only inside the publish step, so Compiler is
\* never blocked by a recompilation.
C23_ReadersHoldInsideCompiler ==
  [][/\ mtx.r = Cardinality({t \in Readers : InsideCompiler(t)})
     /\ pubs' # pubs => \A t \in Readers : ~InsideCompiler(t)
     /\ WritersOutside
    ]_vars

C23_Witness ==
  \E t \in Readers : /\ ReadInProgress(t)
                     /\ ~InsideCompiler(t)
                     /\ mtx.r = 0
                     /\ pubs # <<>>
                     /\ lk[t].got.snap # LastPublished

(***************************************************************************)
(* Properties of the request builder.                                      *)
(***************************************************************************)
Accepted == bPc = "built" /\ bResult.err = "none"
Overlap(i, j) ==
  \/ IsPrefix(RefKeys(bPairs[i].ref), RefKeys(bPairs[j].ref))
  \/ IsPrefix(RefKeys(bPairs[j].ref), RefKeys(bPairs[i].ref))
AllValid == \A i \in 1..Len(bPairs) : ValidPath(bPairs[i].ref)
Wholesale(i) == RefKeys(bPairs[i].ref) = <<>> /\ ~IsObject(bPairs[i].value)

RECURSIVE Contains(_, _)
Contains(doc, v) ==
  IF IsObject(v)
  THEN IsObject(doc) /\ \A k \in DOMAIN v.f : k \in DOMAIN doc.f /\ Contains(doc.f[k], v.f[k])
  ELSE doc = v

ShorterNonObject(i, j) ==
  \/ /\ IsPrefix(RefKeys(bPairs[i].ref), RefKeys(bPairs[j].ref))
     /\ ~IsObject(bPairs[i].value)
  \/ /\ IsPrefix(RefKeys(bPairs[j].ref), RefKeys(bPairs[i].ref))
     /\ ~IsObject(bPairs[j].value)
C8_OverlapConflicts ==
  (bPc = "built" /\ AllValid) =>
    \A i, j \in 1..Len(bPairs) :
      (i # j /\ ShorterNonObject(i, j)) => bResult.err \in {"conflict", "conflict_root"}

\* C9: a conflict on a value is raised at the later of two overlapping pairs and
\* the message names the whole ref of that later pair.
C9_ConflictNamesLaterPair ==
  (bPc = "built" /\ bResult.err = "conflict") =>
    /\ bResult.at \in 2..Len(bPairs)
    /\ bResult.path = bPairs[bResult.at].ref
    /\ RefKeys(bPairs[bResult.at].ref) # <<>>
    /\ \E j \in 1..(bResult.at - 1) : Overlap(j, bResult.at)
    /\ MakeRequest(SubSeq(bPairs, 1, bResult.at - 1)).err = "none"

C9_Witness ==
  /\ bPc = "built"
  /\ bResult.err = "conflict"
  /\ \E j \in 1..(bResult.at - 1) :
       /\ Overlap(j, bResult.at)
       /\ Len(bPairs[j].ref) > 1
       /\ Len(bPairs[j].ref) # Len(bPairs[bResult.at].ref)

\* The document the builder holds when it comes to pair i, and the intermediate
\* keys of pair i (proper, non-empty prefixes of its keys) at which that
\* document holds a non-object.
DocBefore(i) == MakeRequest(SubSeq(bPairs, 1, i - 1))
NonObjectAt(i) ==
  {n \in 1..(Len(RefKeys(bPairs[i].ref)) - 1) :
     LET v == Lookup(DocBefore(i).doc, SubSeq(RefKeys(bPairs[i].ref), 1, n))
     IN IsSet(v) /\ ~IsObject(v)}
MeetsNonObject(i) ==
  /\ ValidPath(bPairs[i].ref)
  /\ DocBefore(i).err = "none"
  /\ IsObject(DocBefore(i).doc)
  /\ NonObjectAt(i) # {}

\* C19 (as stated): when the descent along a pair's keys meets a non-object at
\* an intermediate key, the conflict names the prefix of the pair's ref that
\* ends at that key.
C19_NamesOffendingPrefix ==
  bPc = "built" =>
    \A i \in 1..Len(bPairs) :
      MeetsNonObject(i) =>
        /\ bResult.err = "conflict"
        /\ bResult.at = i
        /\ \E n \in NonObjectAt(i) : bResult.path = SubSeq(bPairs[i].ref, 1, n + 1)

\* C19 (amended): when the descent along a pair's keys meets a non-object at an
\* intermediate key, the build is refused at that pair and the conflict names
\* the pair's whole ref, which is longer than the prefix ending at that key.
C19_NamesWholeRefPastNonObject ==
  bPc = "built" =>
    \A i \in 1..Len(bPairs) :
      MeetsNonObject(i) =>
        /\ bResult.err = "conflict"
        /\ bResult.at = i
        /\ bResult.path = bPairs[i].ref
        /\ \A n \in NonObjectAt(i) : Len(bResult.path) > n + 1

C19_Witness ==
  /\ bPc = "built"
  /\ bResult.err = "conflict"
  /\ MeetsNonObject(bResult.at)
====
